---------------------------- MODULE Spec2Model ----------------------------
(***************************************************************************)
(* Beat-synchronised motion scheduler of go1pylib (beat_routine/*.py).     *)
(*                                                                         *)
(* The module holds one state machine per component:                      *)
(*   SpecSections  - the 4-way section split of the offline run            *)
(*   SpecSequence  - build_sequence                                        *)
(*   SpecBpm       - the octave folding of get_bpm                         *)
(*   SpecTurn      - run_move / DanceMove.run / balance_turn on a TurnState*)
(*   SpecDetector  - RealtimeBeatDetector.process_chunk, free inputs       *)
(*   SpecClick     - process_chunk fed by a click track of fixed period    *)
(*   SpecLive      - audio_processing_loop with its head_bob tasks         *)
(*   SpecTimeRange - BeatModeMapper.get_beat_time_range                    *)
(*   SpecOffline   - main / perform_block of custom_example.py             *)
(*   SpecRun       - run_move on moves built outside the catalogue         *)
(*   SpecShared    - run_move invocations interleaving on one TurnState    *)
(*   SpecSchedule  - the beat-list loop of dance_routine / head_bob_beats  *)
(* Every specification leaves the variables of the other components at     *)
(* their idle values.                                                      *)
(*                                                                         *)
(* Python floats are modelled as exact rationals <<n, d>> (d > 0, reduced):*)
(* all arithmetic of the modelled code is +, -, *, / and comparisons.      *)
(***************************************************************************)
EXTENDS Integers, Sequences, FiniteSets, TLC

VARIABLES
    \* ---- offline run: section split (custom_example.py main) ----
    beat_times,      \* the beat timeline handed to BeatModeMapper
    sections,        \* <<warmup, verse, chorus, finale>>, each <<start, end>>; <<>> before the split
    \* ---- build_sequence ----
    pattern,         \* argument
    count,           \* argument
    sequence,        \* the local list being extended
    seq_result,      \* the returned list
    seq_pc,          \* "loop" | "done"
    \* ---- RealtimeBeatDetector.get_bpm ----
    tempo,           \* what librosa.beat.beat_track returned in this call
    bpm,             \* the local being folded
    last_bpm,        \* self.last_bpm
    bpm_pc,          \* "track" | "double" | "halve" | "done"
    bpm_log,         \* one entry per returned call: raw tempo and returned value
    \* ---- run_move / DanceMove.run / balance_turn (dance_moves.py) ----
    balance,         \* turn_state.balance
    tracked,         \* turn_state is not None
    dry_run,         \* argument dry_run
    auto_balance_turns, \* argument auto_balance_turns
    balance_speed,   \* argument balance_speed
    move,            \* name of the move of the current run_move call
    duration_s,      \* argument duration_s of the current call
    step_i,          \* index of the step whose runner (or sleep) is awaited
    turn_pc,         \* "idle" | "step" | "balance" | "await_turn" | "done" | "balanced"
    cmds,            \* actuator commands issued during the current call, in order
    elapsed,         \* seconds awaited during the current call
    heading,         \* sum of the signed turns commanded to the actuator so far
    bt_entry,        \* turn_state.balance as the last balance_turn call found it
    calls,           \* calls made so far
    \* ---- RealtimeBeatDetector (realtime_bob.py) ----
    current_time,    \* time.time() as process_chunk last read it
    min_beat_interval, \* the configured MIN_BEAT_INTERVAL
    last_beat_time,  \* self.last_beat_time
    beat_history,    \* self.beat_times, the deque(maxlen=8)
    beat_period,     \* self.beat_period
    next_predicted_beat, \* self.next_predicted_beat, <<>> for None
    onset_beat,      \* local onset_beat of the last call
    predicted_beat,  \* local predicted_beat of the last call
    det_ret,         \* what the last call returned: <<fired, beat_type>>
    chunk_no,        \* process_chunk calls so far
    click_period,    \* chunks between two clicks of the click track, 0 without one
    \* ---- audio_processing_loop and its head_bob tasks (realtime_bob.py) ----
    loop_pc,         \* "read": about to stream.read; "sleep": in await asyncio.sleep(0.01)
    wall,            \* the wall clock
    beat_count,      \* local beat_count
    bob_count,       \* local bob_count
    chunk_count,     \* local chunk_count
    live_dry,        \* DRY_RUN of realtime_bob.py
    tasks,           \* the head_bob tasks in flight, oldest first
    \* ---- BeatModeMapper.get_beat_time_range (custom_example.py) ----
    start_beat,      \* argument
    end_beat,        \* argument
    range_ret,       \* <<>> before the call; <<"ValueError">> or <<"ok", start_time, end_time>>
    range_warnings,  \* warnings the call logged
    mode_ret,        \* "none" before get_mode_for_beat_range was called, then the Go1Mode
    \* ---- main / perform_block (custom_example.py, both copies) ----
    off_script,      \* "beat_routine" | "examples": which custom_example.py runs
    off_pc,          \* position of main
    dog_connected,   \* dog.mqtt.connected
    state,           \* what dog.mqtt.get_state() last returned
    off_elapsed,     \* time.time() - start_time, in tenths of a second
    off_block,       \* index of the perform_block call in progress, 1..4
    off_i,           \* index i of the move loop of perform_block
    off_calls,       \* actuator calls made so far, in order
    off_log,         \* what the run logged at error or warning level
    off_exc,         \* exception propagating in main: "none" | "Exception" | "CancelledError"
    off_outcome,     \* what the caller of main() gets: "running" | "returned" | "raised"
    off_interrupt,   \* Len(off_calls) when the interrupt was delivered, -1 before
    off_raised,      \* the actuator calls that raised an exception so far
    \* ---- run_move invocations in flight on one TurnState ----
    co_tasks,        \* one record per invocation: its move, duration, step index and position
    \* ---- the beat-list loop of dance_routine.py and head_bob_beats.py ----
    sch_pc,          \* "off", "start", "sleep" (awaiting the beat), "move", "done"
    sch_now,         \* time.time() - start_time, in tenths of a second
    sch_i,           \* the index i of the beat the loop is at (0-based)
    sch_beats,       \* beat_times, in tenths of a second
    sch_every,       \* BEATS_PER_MOVE of the script
    sch_move_s,      \* move_duration_s, in tenths of a second
    sch_wait,        \* wait_time handed to asyncio.sleep, 0 when not sleeping
    sch_log          \* the moves started: beat index, time the loop reached it, start time

secVars == <<beat_times, sections>>
seqVars == <<pattern, count, sequence, seq_result, seq_pc>>
bpmVars == <<tempo, bpm, last_bpm, bpm_pc, bpm_log>>
turnVars == <<balance, tracked, dry_run, auto_balance_turns, balance_speed, move,
              duration_s, step_i, turn_pc, cmds, elapsed, heading, bt_entry, calls>>
detVars == <<current_time, min_beat_interval, last_beat_time, beat_history, beat_period,
             next_predicted_beat, onset_beat, predicted_beat, det_ret, chunk_no,
             click_period>>
liveVars == <<loop_pc, wall, beat_count, bob_count, chunk_count, live_dry, tasks>>
rangeVars == <<start_beat, end_beat, range_ret, range_warnings, mode_ret>>
offVars == <<off_script, off_pc, dog_connected, state, off_elapsed, off_block, off_i,
             off_calls, off_log, off_exc, off_outcome, off_interrupt, off_raised>>
coVars == <<co_tasks>>
schVars == <<sch_pc, sch_now, sch_i, sch_beats, sch_every, sch_move_s, sch_wait, sch_log>>
vars == <<secVars, seqVars, bpmVars, turnVars, detVars, liveVars, rangeVars, offVars,
          coVars, schVars>>

\* what the actions of one component leave alone
notSec == <<seqVars, bpmVars, turnVars, detVars, liveVars, rangeVars, offVars,
    coVars, schVars>>
notSeq == <<secVars, bpmVars, turnVars, detVars, liveVars, rangeVars, offVars,
    coVars, schVars>>
notBpm == <<secVars, seqVars, turnVars, detVars, liveVars, rangeVars, offVars,
    coVars, schVars>>
notTurn == <<secVars, seqVars, bpmVars, detVars, liveVars, rangeVars, offVars,
    coVars, schVars>>
notDet == <<secVars, seqVars, bpmVars, turnVars, liveVars, rangeVars, offVars,
    coVars, schVars>>
notLive == <<secVars, seqVars, bpmVars, turnVars, rangeVars, offVars,
    coVars, schVars>>
notRange == <<seqVars, bpmVars, turnVars, detVars, liveVars, offVars,
    coVars, schVars>>
notOff == <<secVars, seqVars, bpmVars, turnVars, detVars, liveVars, rangeVars,
    coVars, schVars>>

-----------------------------------------------------------------------------
(* Exact rational arithmetic standing for Python float arithmetic.         *)

RECURSIVE GCD(_, _)
GCD(a, b) == IF b = 0 THEN a ELSE GCD(b, a % b)

IAbs(n) == IF n < 0 THEN -n ELSE n

Min(a, b) == IF a <= b THEN a ELSE b

Q(n, d) ==
    LET g == GCD(IAbs(n), IAbs(d))
        s == IF d < 0 THEN -1 ELSE 1
    IN  IF n = 0 THEN <<0, 1>> ELSE <<s * (n \div g), s * (d \div g)>>

QInt(n) == <<n, 1>>

QZero == <<0, 1>>

QNeg(x) == <<-x[1], x[2]>>

QAbs(x) == <<IAbs(x[1]), x[2]>>

QAdd(x, y) ==
    LET g == GCD(x[2], y[2])
    IN  Q(x[1] * (y[2] \div g) + y[1] * (x[2] \div g), (x[2] \div g) * y[2])

QSub(x, y) == QAdd(x, QNeg(y))

QMul(x, y) ==
    LET g1 == GCD(IAbs(x[1]), y[2])
        g2 == GCD(IAbs(y[1]), x[2])
    IN  IF x[1] = 0 \/ y[1] = 0 THEN QZero
        ELSE <<(x[1] \div g1) * (y[1] \div g2), (x[2] \div g2) * (y[2] \div g1)>>

\* x / y for y # 0
QDiv(x, y) ==
    IF y[1] < 0 THEN QMul(x, <<-y[2], -y[1]>>) ELSE QMul(x, <<y[2], y[1]>>)

QLess(x, y) ==
    LET g == GCD(x[2], y[2])
    IN  x[1] * (y[2] \div g) < y[1] * (x[2] \div g)

QLeq(x, y) == ~QLess(y, x)

-----------------------------------------------------------------------------
(* Bounds of the model.                                                    *)

MaxBeats == 9        \* longest beat timeline
MaxBeatTime == 2     \* beat times are drawn from 0..MaxBeatTime
MaxPatternLen == 3   \* longest pattern handed to build_sequence
MaxCount == 7        \* largest count handed to build_sequence
MaxRawStep == 60     \* raw tempos are 8k and 8k/3 for k in 0..MaxRawStep
MaxBpmCalls == 2     \* get_bpm calls in one run
MaxMoves == 3        \* run_move / balance_turn calls on one TurnState
MaxChunks == 9       \* process_chunk calls in one run
MaxClickChunks == 16 \* process_chunk calls in one run on a click track
MaxLiveChunks == 10  \* chunks the live loop reads
MaxBlockMoves == 2   \* moves of one perform_block call (the code's blocks hold 10 or 15)

-----------------------------------------------------------------------------
(* Idle values of each component.                                          *)

SecIdle == beat_times = <<0>> /\ sections = <<>>

SeqIdle ==
    /\ pattern = <<>>
    /\ count = 0
    /\ sequence = <<>>
    /\ seq_result = <<>>
    /\ seq_pc = "idle"

BpmIdle ==
    /\ tempo = <<0, 1>>
    /\ bpm = <<0, 1>>
    /\ last_bpm = <<0, 1>>
    /\ bpm_pc = "idle"
    /\ bpm_log = <<>>

TurnIdle ==
    /\ balance = <<0, 1>>
    /\ tracked = FALSE
    /\ dry_run = FALSE
    /\ auto_balance_turns = FALSE
    /\ balance_speed = <<0, 1>>
    /\ move = "none"
    /\ duration_s = <<0, 1>>
    /\ step_i = 0
    /\ turn_pc = "off"
    /\ cmds = <<>>
    /\ elapsed = <<0, 1>>
    /\ heading = <<0, 1>>
    /\ bt_entry = <<0, 1>>
    /\ calls = 0

DetIdle ==
    /\ current_time = <<0, 1>>
    /\ min_beat_interval = <<0, 1>>
    /\ last_beat_time = <<0, 1>>
    /\ beat_history = <<>>
    /\ beat_period = <<0, 1>>
    /\ next_predicted_beat = <<>>
    /\ onset_beat = FALSE
    /\ predicted_beat = FALSE
    /\ det_ret = <<FALSE, "None">>
    /\ chunk_no = 0
    /\ click_period = 0

LiveIdle ==
    /\ loop_pc = "off"
    /\ wall = <<0, 1>>
    /\ beat_count = 0
    /\ bob_count = 0
    /\ chunk_count = 0
    /\ live_dry = FALSE
    /\ tasks = <<>>

\* dog.mqtt.get_state() returning None
StateNone == [kind |-> "None", soc |-> 0]

RangeIdle ==
    /\ start_beat = 0
    /\ end_beat = 0
    /\ range_ret = <<>>
    /\ range_warnings = {}
    /\ mode_ret = "none"

OffIdle ==
    /\ off_script = "none"
    /\ off_pc = "off"
    /\ dog_connected = FALSE
    /\ state = StateNone
    /\ off_elapsed = 0
    /\ off_block = 0
    /\ off_i = 0
    /\ off_calls = <<>>
    /\ off_log = {}
    /\ off_exc = "none"
    /\ off_outcome = "running"
    /\ off_interrupt = -1
    /\ off_raised = {}

CoIdle == co_tasks = <<>>

SchIdle ==
    /\ sch_pc = "off"
    /\ sch_now = 0
    /\ sch_i = 0
    /\ sch_beats = <<>>
    /\ sch_every = 0
    /\ sch_move_s = 0
    /\ sch_wait = 0
    /\ sch_log = <<>>

\* every component but one is idle
SecOnly == SeqIdle /\ BpmIdle /\ TurnIdle /\ DetIdle /\ LiveIdle /\ RangeIdle /\ OffIdle
    /\ CoIdle /\ SchIdle

SeqOnly == SecIdle /\ BpmIdle /\ TurnIdle /\ DetIdle /\ LiveIdle /\ RangeIdle /\ OffIdle
    /\ CoIdle /\ SchIdle

BpmOnly == SecIdle /\ SeqIdle /\ TurnIdle /\ DetIdle /\ LiveIdle /\ RangeIdle /\ OffIdle
    /\ CoIdle /\ SchIdle

TurnOnly == SecIdle /\ SeqIdle /\ BpmIdle /\ DetIdle /\ LiveIdle /\ RangeIdle /\ OffIdle
    /\ CoIdle /\ SchIdle

DetOnly == SecIdle /\ SeqIdle /\ BpmIdle /\ TurnIdle /\ LiveIdle /\ RangeIdle /\ OffIdle
    /\ CoIdle /\ SchIdle

\* the live loop drives the detector
LiveOnly == SecIdle /\ SeqIdle /\ BpmIdle /\ TurnIdle /\ RangeIdle /\ OffIdle
    /\ CoIdle /\ SchIdle

\* get_beat_time_range reads the beat timeline of the section component
RangeOnly == sections = <<>> /\ SeqIdle /\ BpmIdle /\ TurnIdle /\ DetIdle /\ LiveIdle /\ OffIdle
    /\ CoIdle /\ SchIdle

OffOnly == SecIdle /\ SeqIdle /\ BpmIdle /\ TurnIdle /\ DetIdle /\ LiveIdle /\ RangeIdle
    /\ CoIdle /\ SchIdle

-----------------------------------------------------------------------------
(* Offline run: the 4-way section split.                                   *)

\* A beat timeline is non-empty and non-decreasing (module level of
\* custom_example.py: librosa's beat times, or the fallback [0.0]).
NonDecreasing(s) == \A i \in 1..(Len(s) - 1) : s[i] <= s[i + 1]

Timelines ==
    UNION { { s \in [1..n -> 0..MaxBeatTime] : NonDecreasing(s) } : n \in 1..MaxBeats }

get_total_beats(bt) == Len(bt)

\* variant: the finale is one section_size long instead of ending at total_beats
SplitNoRemainder(total_beats) ==
    LET section_size == total_beats \div 4
        warmup_end == Min(section_size, total_beats)
        verse_end == Min(warmup_end + section_size, total_beats)
        chorus_end == Min(verse_end + section_size, total_beats)
    IN  << <<0, warmup_end>>, <<warmup_end, verse_end>>,
           <<verse_end, chorus_end>>, <<chorus_end, chorus_end + section_size>> >>

\* section_size = total_beats // 4 and the four (start, end) pairs
SectionSplit(total_beats) ==
    LET section_size == total_beats \div 4
        warmup_end == Min(section_size, total_beats)
        verse_end == Min(warmup_end + section_size, total_beats)
        chorus_end == Min(verse_end + section_size, total_beats)
    IN  << <<0, warmup_end>>, <<warmup_end, verse_end>>,
           <<verse_end, chorus_end>>, <<chorus_end, total_beats>> >>

InitSections ==
    /\ beat_times \in Timelines
    /\ sections = <<>>
    /\ SecOnly

ComputeSections ==
    /\ sections = <<>>
    /\ sections' = SectionSplit(get_total_beats(beat_times))
    /\ UNCHANGED <<beat_times, notSec>>

NextSections == ComputeSections

SpecSections == InitSections /\ [][NextSections]_vars

RECURSIVE SumLengths(_, _)
SumLengths(ss, i) ==
    IF i > Len(ss) THEN 0 ELSE (ss[i][2] - ss[i][1]) + SumLengths(ss, i + 1)

\* C1: for every beat count N >= 1 the split yields exactly 4 ranges
\* [start, end) that tile [0, N): the first starts at 0, each starts where
\* the previous one ends, the last ends at N, every range has start <= end,
\* and the lengths sum to N.

SectionsTile ==
    sections # <<>> =>
        LET N == Len(beat_times)
        IN  /\ Len(sections) = 4
            /\ sections[1][1] = 0
            /\ \A i \in 1..3 : sections[i + 1][1] = sections[i][2]
            /\ sections[4][2] = N
            /\ \A i \in 1..4 : sections[i][1] <= sections[i][2]
            /\ SumLengths(sections, 1) = N

\* a timeline shorter than 4 beats has been split: three empty ranges and a
\* finale that absorbs everything
SectionsTileWitness ==
    /\ sections # <<>>
    /\ Len(beat_times) = 3
    /\ sections = << <<0, 0>>, <<0, 0>>, <<0, 0>>, <<0, 3>> >>

-----------------------------------------------------------------------------
(* build_sequence(pattern, count).                                         *)

Moves == {"a", "b", "c"}

\* the patterns handed in, the empty list among them
Patterns == UNION { [1..n -> Moves] : n \in 0..MaxPatternLen }

\* variant: the list is returned without the slice
SliceNone(s, n) == s

\* Python's sequence[:n]
SliceTo(s, n) ==
    IF n >= 0 THEN SubSeq(s, 1, Min(n, Len(s)))
    ELSE SubSeq(s, 1, IF Len(s) + n > 0 THEN Len(s) + n ELSE 0)

InitSequence ==
    /\ pattern \in Patterns
    /\ count \in 0..MaxCount
    /\ sequence = <<>>
    /\ seq_result = <<>>
    /\ seq_pc = "loop"
    /\ SeqOnly

\* sequence.extend(pattern)
Extend(s, p) == s \o p

\* while len(sequence) < count: sequence.extend(pattern)
BuildExtend ==
    /\ seq_pc = "loop"
    /\ Len(sequence) < count
    /\ sequence' = Extend(sequence, pattern)
    /\ UNCHANGED <<pattern, count, seq_result, seq_pc, notSeq>>

\* return sequence[:count]
BuildReturn ==
    /\ seq_pc = "loop"
    /\ ~(Len(sequence) < count)
    /\ seq_result' = SliceTo(sequence, count)
    /\ seq_pc' = "done"
    /\ UNCHANGED <<pattern, count, sequence, notSeq>>

NextSequence == BuildExtend \/ BuildReturn

SpecSequence == InitSequence /\ [][NextSequence]_vars

\* C7: for a non-empty pattern and count >= 0 the result has exactly count
\* elements and its i-th element (from 0) is pattern[i mod len(pattern)].
BuildSequencePrefix ==
    seq_pc = "done" =>
        /\ Len(seq_result) = count
        /\ \A i \in 0..(count - 1) : seq_result[i + 1] = pattern[(i % Len(pattern)) + 1]

\* the scenario build_sequence(["a","b","c"], 7)
BuildSequenceWitness ==
    /\ seq_pc = "done"
    /\ pattern = <<"a", "b", "c">>
    /\ count = 7
    /\ seq_result = <<"a", "b", "c", "a", "b", "c", "a">>

-----------------------------------------------------------------------------
(* RealtimeBeatDetector.get_bpm: the octave folding.                       *)

START_BPM == 120

\* What beat_track may return: 0 (a silent buffer) and positive tempos on
\* both sides of 80, 160, 200 and 400.
RawDenoms == {1, 3}

RawTempos == { Q(8 * k, d) : k \in 0..MaxRawStep, d \in RawDenoms }

\* variant: while bpm > 100
TooFastLow(b) == QLess(QInt(100), b)

\* while bpm < 80
TooSlow(b) == QLess(b, QInt(80))

\* while bpm > 200
TooFast(b) == QLess(QInt(200), b)

InitBpm ==
    /\ tempo = QZero
    /\ bpm = QZero
    /\ last_bpm = QInt(START_BPM)
    /\ bpm_pc = "track"
    /\ bpm_log = <<>>
    /\ BpmOnly

\* tempo, _ = librosa.beat.beat_track(...); bpm = float(tempo).
\* A later call may be handed the value the previous call returned.
BeatTrack ==
    /\ bpm_pc = "track"
    /\ \E t \in RawTempos \cup {last_bpm} :
        /\ tempo' = t
        /\ bpm' = t
    /\ bpm_pc' = "double"
    /\ UNCHANGED <<last_bpm, bpm_log, notBpm>>

\* except Exception: return self.last_bpm
BeatTrackRaises ==
    /\ bpm_pc = "track"
    /\ bpm' = last_bpm
    /\ bpm_pc' = "done"
    /\ bpm_log' = Append(bpm_log, [raised |-> TRUE, tempo |-> QZero, bpm |-> last_bpm])
    /\ UNCHANGED <<tempo, last_bpm, notBpm>>

\* while bpm < 80: bpm *= 2
BpmDouble ==
    /\ bpm_pc = "double"
    /\ TooSlow(bpm)
    /\ bpm' = QMul(bpm, QInt(2))
    /\ UNCHANGED <<tempo, last_bpm, bpm_pc, bpm_log, notBpm>>

BpmDoubleExit ==
    /\ bpm_pc = "double"
    /\ ~TooSlow(bpm)
    /\ bpm_pc' = "halve"
    /\ UNCHANGED <<tempo, bpm, last_bpm, bpm_log, notBpm>>

\* while bpm > 200: bpm /= 2
BpmHalve ==
    /\ bpm_pc = "halve"
    /\ TooFast(bpm)
    /\ bpm' = QDiv(bpm, QInt(2))
    /\ UNCHANGED <<tempo, last_bpm, bpm_pc, bpm_log, notBpm>>

\* self.last_bpm = bpm; return bpm
BpmReturn ==
    /\ bpm_pc = "halve"
    /\ ~TooFast(bpm)
    /\ last_bpm' = bpm
    /\ bpm_pc' = "done"
    /\ bpm_log' = Append(bpm_log, [raised |-> FALSE, tempo |-> tempo, bpm |-> bpm])
    /\ UNCHANGED <<tempo, bpm, notBpm>>

\* the next call of get_bpm (audio_processing_loop, every 20th chunk)
GetBpmAgain ==
    /\ bpm_pc = "done"
    /\ Len(bpm_log) < MaxBpmCalls
    /\ bpm_pc' = "track"
    /\ UNCHANGED <<tempo, bpm, last_bpm, bpm_log, notBpm>>

NextBpm ==
    \/ BeatTrack
    \/ BeatTrackRaises
    \/ BpmDouble
    \/ BpmDoubleExit
    \/ BpmHalve
    \/ BpmReturn
    \/ GetBpmAgain

SpecBpm == InitBpm /\ [][NextBpm]_vars

InBand(b) == QLeq(QInt(80), b) /\ QLeq(b, QInt(200))

\* C6: every value get_bpm returns lies in [80, 200], and a call whose raw
\* tempo is the value the previous call returned returns that same value
\* (folding a folded value changes nothing).
BpmFoldedInBand ==
    \A i \in 1..Len(bpm_log) :
        /\ InBand(bpm_log[i].bpm)
        /\ (i > 1 /\ ~bpm_log[i].raised /\ bpm_log[i].tempo = bpm_log[i - 1].bpm)
              => bpm_log[i].bpm = bpm_log[i].tempo

\* 24 was doubled twice to 96, and 96 handed back in stays 96
BpmFoldedWitness ==
    /\ Len(bpm_log) = 2
    /\ bpm_log[1] = [raised |-> FALSE, tempo |-> QInt(24), bpm |-> QInt(96)]
    /\ bpm_log[2] = [raised |-> FALSE, tempo |-> QInt(96), bpm |-> QInt(96)]

-----------------------------------------------------------------------------
(* dance_moves.py: the move catalogue, DanceMove.run, run_move and         *)
(* balance_turn on one TurnState.                                          *)

SpeedStep(name, speed) ==
    [name |-> name, kind |-> "speed", speed |-> speed, turn_rate |-> QZero]

PoseStep(name) ==
    [name |-> name, kind |-> "pose", speed |-> QZero, turn_rate |-> QZero]

\* variant: turn_rate = speed for both directions
TurnStepUnsigned(name, direction, speed) ==
    [name |-> name, kind |-> "turn", speed |-> speed, turn_rate |-> speed]

\* turn_rate = speed if direction == "right" else -speed
TurnStep(name, direction, speed) ==
    [name |-> name, kind |-> "turn", speed |-> speed,
     turn_rate |-> IF direction = "right" THEN speed ELSE QNeg(speed)]

WaitStep(name) ==
    [name |-> name, kind |-> "wait", speed |-> QZero, turn_rate |-> QZero]

WalkStep(name, speed) ==
    [name |-> name, kind |-> "walk", speed |-> speed, turn_rate |-> QZero]

DANCE_MOVES ==
    [ head_bob |-> << SpeedStep("look_down", Q(3, 5)), SpeedStep("look_up", Q(3, 5)) >>,
      side_sway |-> << SpeedStep("lean_left", Q(1, 2)), SpeedStep("lean_right", Q(1, 2)) >>,
      twist |-> << SpeedStep("twist_left", Q(1, 2)), SpeedStep("twist_right", Q(1, 2)) >>,
      bounce |-> << SpeedStep("extend_up", Q(1, 2)), SpeedStep("squat_down", Q(1, 2)) >>,
      look_and_twist |-> << SpeedStep("look_down", Q(1, 2)), SpeedStep("twist_left", Q(2, 5)),
                            SpeedStep("look_up", Q(1, 2)), SpeedStep("twist_right", Q(2, 5)) >>,
      body_wave |-> << PoseStep("pose_left_down"), PoseStep("pose_right_up"),
                       PoseStep("pose_left_up"), PoseStep("pose_right_down") >>,
      pause |-> << WaitStep("wait") >>,
      turn_left |-> << TurnStep("turn_left", "left", Q(2, 5)) >>,
      turn_right |-> << TurnStep("turn_right", "right", Q(2, 5)) >>,
      turn_left_right |-> << TurnStep("turn_left", "left", Q(2, 5)),
                             TurnStep("turn_right", "right", Q(2, 5)) >>,
      walk_left |-> << WalkStep("go_left", Q(2, 5)) >>,
      walk_right |-> << WalkStep("go_right", Q(2, 5)) >>,
      walk_left_right |-> << WalkStep("go_left", Q(2, 5)), WalkStep("go_right", Q(2, 5)) >> ]

\* The catalogue's moves and a DanceMove built with steps=[].
MoveNames == DOMAIN DANCE_MOVES \cup {"no_steps"}

\* a DanceMove of three steps, one of them a turn, outside the catalogue
ThreeSteps ==
    << SpeedStep("look_down", Q(1, 2)), TurnStep("turn_right", "right", Q(2, 5)),
       SpeedStep("look_up", Q(1, 2)) >>

StepsOf(m) ==
    IF m = "no_steps" THEN <<>>
    ELSE IF m = "three_steps" THEN ThreeSteps
    ELSE DANCE_MOVES[m]

\* duration_s arguments: none, one microsecond, three seconds
Durations == { QZero, Q(1, 1000000), QInt(3) }

BalanceSpeeds == { Q(-2, 5), QZero, Q(2, 5), Q(3, 5) }

\* the 1e-6 of balance_turn
Epsilon == Q(1, 1000000)

Cmd(by, name, speed, duration_ms) ==
    [by |-> by, name |-> name, speed |-> speed, duration_ms |-> duration_ms]

\* the actuator calls one step's runner makes
StepCmds(step, step_duration_ms) ==
    IF step.kind = "walk"
    THEN << Cmd("step", "set_mode_WALK", QZero, QZero),
            Cmd("step", step.name, step.speed, step_duration_ms),
            Cmd("step", "set_mode_STAND", QZero, QZero) >>
    ELSE << Cmd("step", step.name, step.speed, step_duration_ms) >>

\* seconds one step's runner takes; the walk runner sleeps 0.3 s twice
StepWait(step, step_duration_s) ==
    IF step.kind = "walk" THEN QAdd(step_duration_s, Q(3, 5)) ELSE step_duration_s

\* the signed turn a command asks of the actuator (right positive)
Signed(c) ==
    IF c.name = "turn_right" THEN QMul(c.speed, QDiv(c.duration_ms, QInt(1000)))
    ELSE IF c.name = "turn_left" THEN QNeg(QMul(c.speed, QDiv(c.duration_ms, QInt(1000))))
    ELSE QZero

RECURSIVE SignedSum(_, _)
SignedSum(cs, i) ==
    IF i > Len(cs) THEN QZero ELSE QAdd(Signed(cs[i]), SignedSum(cs, i + 1))

\* variant: every step is handed the whole duration of the move
StepDurationMsWhole(m, d) == QMul(d, QInt(1000))

\* DanceMove.run: step_duration_ms = (duration_s * 1000.0) / len(self.steps)
StepDurationMs(m, d) == QDiv(QMul(d, QInt(1000)), QInt(Len(StepsOf(m))))

\* variant: outside a dry run the milliseconds are taken for seconds
StepDurationSInMs(m, d, dry) ==
    IF dry THEN QDiv(d, QInt(Len(StepsOf(m))))
    ELSE StepDurationMs(m, d)

\* the step duration in seconds: run_move divides duration_s itself in a dry
\* run, DanceMove.run derives it from step_duration_ms
StepDurationS(m, d, dry) ==
    IF dry THEN QDiv(d, QInt(Len(StepsOf(m))))
    ELSE QDiv(StepDurationMs(m, d), QInt(1000))

\* variant: the correction turns the way the balance points
OppositeSame(b) == IF QLess(QZero, b) THEN "turn_right" ELSE "turn_left"

\* if turn_state.balance > 0: turn_left, else: turn_right
Opposite(b) == IF QLess(QZero, b) THEN "turn_left" ELSE "turn_right"

\* variants: a dead band of 2, and a return only on a balance of exactly 0
InDeadBandWide(b) == QLeq(QAbs(b), QInt(2))

InDeadBandZeroOnly(b) == b = QZero

\* abs(turn_state.balance) <= 1e-6
InDeadBand(b) == QLeq(QAbs(b), Epsilon)

InitTurn ==
    /\ balance = QZero
    /\ tracked \in BOOLEAN
    /\ dry_run \in BOOLEAN
    /\ auto_balance_turns \in BOOLEAN
    /\ balance_speed \in BalanceSpeeds
    /\ move = "none"
    /\ duration_s = QZero
    /\ step_i = 0
    /\ turn_pc = "idle"
    /\ cmds = <<>>
    /\ elapsed = QZero
    /\ heading = QZero
    /\ bt_entry = QZero
    /\ calls = 0
    /\ TurnOnly

AtRest == turn_pc \in {"idle", "done", "balanced"}

\* what follows the step loop of run_move: balance_turn is called when
\* auto_balance_turns and turn_state is not None, else run_move returns
AfterLoop == IF auto_balance_turns /\ tracked THEN "balance" ELSE "done"

\* run_move(dog, move, duration_s, dry_run, turn_state, auto_balance_turns,
\* balance_speed) up to its first await
RunMove(m, d) ==
    /\ AtRest
    /\ calls < MaxMoves
    /\ calls' = calls + 1
    /\ move' = m
    /\ duration_s' = d
    /\ elapsed' = QZero
    /\ IF QLeq(d, QZero)
       THEN \* if duration_s <= 0: return
            /\ turn_pc' = "done"
            /\ cmds' = <<>>
            /\ step_i' = 0
            /\ UNCHANGED heading
       ELSE IF Len(StepsOf(m)) = 0
       THEN \* no step to run
            /\ turn_pc' = AfterLoop
            /\ cmds' = <<>>
            /\ step_i' = 0
            /\ UNCHANGED heading
       ELSE \* the first step: asyncio.sleep in a dry run, else its runner
            /\ turn_pc' = "step"
            /\ step_i' = 1
            /\ cmds' = IF dry_run THEN <<>> ELSE StepCmds(StepsOf(m)[1], StepDurationMs(m, d))
            /\ heading' = QAdd(heading, SignedSum(cmds', 1))
    /\ UNCHANGED <<balance, tracked, dry_run, auto_balance_turns, balance_speed, bt_entry, notTurn>>

\* the awaited step ends: the balance is updated and the next step starts
StepDone ==
    /\ turn_pc = "step"
    /\ LET steps == StepsOf(move)
           step == steps[step_i]
           step_duration_s == StepDurationS(move, duration_s, dry_run)
           issued == IF dry_run \/ step_i = Len(steps) THEN <<>>
                     ELSE StepCmds(steps[step_i + 1], StepDurationMs(move, duration_s))
       IN  /\ elapsed' = QAdd(elapsed, IF dry_run THEN step_duration_s
                                       ELSE StepWait(step, step_duration_s))
           /\ balance' = IF tracked /\ step.turn_rate # QZero
                         THEN QAdd(balance, QMul(step.turn_rate, step_duration_s))
                         ELSE balance
           /\ cmds' = cmds \o issued
           /\ heading' = QAdd(heading, SignedSum(issued, 1))
           /\ IF step_i < Len(steps)
              THEN step_i' = step_i + 1 /\ turn_pc' = "step"
              ELSE step_i' = 0 /\ turn_pc' = AfterLoop
    /\ UNCHANGED <<tracked, dry_run, auto_balance_turns, balance_speed, move, duration_s,
                   bt_entry, calls, notTurn>>

\* balance_turn called on its own on the TurnState
BalanceTurnCall ==
    /\ AtRest
    /\ tracked
    /\ calls < MaxMoves
    /\ calls' = calls + 1
    /\ move' = "none"
    /\ duration_s' = QZero
    /\ step_i' = 0
    /\ cmds' = <<>>
    /\ elapsed' = QZero
    /\ turn_pc' = "balance"
    /\ UNCHANGED <<balance, tracked, dry_run, auto_balance_turns, balance_speed, heading,
                   bt_entry, notTurn>>

\* balance_turn up to its await
BalanceTurnEnter ==
    /\ turn_pc = "balance"
    /\ bt_entry' = balance
    /\ LET turn_s == QDiv(QAbs(balance), balance_speed)
       IN  IF QLeq(balance_speed, QZero) \/ InDeadBand(balance)
           THEN /\ turn_pc' = "balanced"
                /\ UNCHANGED <<cmds, heading>>
           ELSE IF QLeq(turn_s, QZero)
           THEN /\ turn_pc' = "balanced"
                /\ UNCHANGED <<cmds, heading>>
           ELSE IF dry_run
           THEN \* await asyncio.sleep(duration_s)
                /\ turn_pc' = "await_turn"
                /\ UNCHANGED <<cmds, heading>>
           ELSE /\ turn_pc' = "await_turn"
                /\ cmds' = Append(cmds, Cmd("balance_turn", Opposite(balance), balance_speed,
                                            QMul(turn_s, QInt(1000))))
                /\ heading' = QAdd(heading, Signed(cmds'[Len(cmds')]))
    /\ UNCHANGED <<balance, tracked, dry_run, auto_balance_turns, balance_speed, move,
                   duration_s, step_i, elapsed, calls, notTurn>>

\* the sleep or the corrective turn ends: turn_state.balance = 0.0
TurnDone ==
    /\ turn_pc = "await_turn"
    /\ elapsed' = QAdd(elapsed, QDiv(QAbs(balance), balance_speed))
    /\ balance' = QZero
    /\ turn_pc' = "balanced"
    /\ UNCHANGED <<tracked, dry_run, auto_balance_turns, balance_speed, move, duration_s,
                   step_i, cmds, heading, bt_entry, calls, notTurn>>

NextTurn ==
    \/ \E m \in MoveNames, d \in Durations : RunMove(m, d)
    \/ StepDone
    \/ BalanceTurnCall
    \/ BalanceTurnEnter
    \/ TurnDone

SpecTurn == InitTurn /\ [][NextTurn]_vars

\* run_move on a few moves (two of them built outside the catalogue) and
\* durations that include a negative one and 900 ms
RunMoves ==
    {"no_steps", "three_steps", "pause", "look_and_twist", "turn_left_right",
     "walk_left_right"}

RunDurations == { Q(-1, 1), QZero, Q(9, 10), QInt(3) }

NextRun ==
    \/ \E m \in RunMoves, d \in RunDurations : RunMove(m, d)
    \/ StepDone
    \/ BalanceTurnEnter
    \/ TurnDone

SpecRun == InitTurn /\ [][NextRun]_vars

-----------------------------------------------------------------------------
(* dance_moves.py: run_move invocations started as tasks by one caller and *)
(* handed the same TurnState. Each invocation runs from one await to the   *)
(* next without yielding; balance, heading and cmds are shared.            *)

MaxTasks == 2

CoMoves == {"head_bob", "turn_left", "turn_right", "turn_left_right"}

CoDurations == { Q(9, 10), QInt(3) }

CoBalanceSpeeds == { Q(2, 5), Q(3, 5) }

notCo == <<secVars, seqVars, bpmVars, detVars, liveVars, rangeVars, offVars, schVars>>

coShared == <<tracked, dry_run, auto_balance_turns, balance_speed, move, duration_s,
              step_i, turn_pc, elapsed, bt_entry, calls>>

InitShared ==
    /\ balance = QZero
    /\ tracked = TRUE
    /\ dry_run \in BOOLEAN
    /\ auto_balance_turns \in BOOLEAN
    /\ balance_speed \in CoBalanceSpeeds
    /\ move = "none"
    /\ duration_s = QZero
    /\ step_i = 0
    /\ turn_pc = "idle"
    /\ cmds = <<>>
    /\ elapsed = QZero
    /\ heading = QZero
    /\ bt_entry = QZero
    /\ calls = 0
    /\ co_tasks = <<>>
    /\ SecIdle /\ SeqIdle /\ BpmIdle /\ DetIdle /\ LiveIdle /\ RangeIdle /\ OffIdle
    /\ SchIdle

\* create_task(run_move(dog, move, duration_s, dry_run, turn_state, ...)) up
\* to the first await of the invocation
CoRunMove(m, d) ==
    /\ Len(co_tasks) < MaxTasks
    /\ LET issued == IF dry_run THEN <<>>
                     ELSE StepCmds(StepsOf(m)[1], StepDurationMs(m, d))
       IN  /\ co_tasks' = Append(co_tasks,
                                 [move |-> m, duration_s |-> d, step_i |-> 1, pc |-> "step",
                                  added |-> QZero, turning |-> QZero, corrected |-> QZero])
           /\ cmds' = cmds \o issued
           /\ heading' = QAdd(heading, SignedSum(issued, 1))
    /\ UNCHANGED <<balance, coShared, notCo>>

\* the awaited step of invocation t ends: turn_state.balance += ..., then the
\* next step starts, or the loop ends and balance_turn runs up to its await
CoStepDone(t) ==
    /\ co_tasks[t].pc = "step"
    /\ LET r == co_tasks[t]
           steps == StepsOf(r.move)
           step == steps[r.step_i]
           step_duration_s == StepDurationS(r.move, r.duration_s, dry_run)
           contribution == IF step.turn_rate # QZero
                           THEN QMul(step.turn_rate, step_duration_s) ELSE QZero
           updated == QAdd(balance, contribution)
           turn_s == QDiv(QAbs(updated), balance_speed)
           returns == \/ ~auto_balance_turns
                      \/ QLeq(balance_speed, QZero)
                      \/ InDeadBand(updated)
                      \/ QLeq(turn_s, QZero)
           issued == IF r.step_i < Len(steps)
                     THEN IF dry_run THEN <<>>
                          ELSE StepCmds(steps[r.step_i + 1],
                                        StepDurationMs(r.move, r.duration_s))
                     ELSE IF returns \/ dry_run THEN <<>>
                     ELSE << Cmd("balance_turn", Opposite(updated), balance_speed,
                                 QMul(turn_s, QInt(1000))) >>
       IN  /\ balance' = updated
           /\ cmds' = cmds \o issued
           /\ heading' = QAdd(heading, SignedSum(issued, 1))
           /\ co_tasks' =
                [co_tasks EXCEPT ![t] =
                    IF r.step_i < Len(steps)
                    THEN [r EXCEPT !.step_i = r.step_i + 1,
                                   !.added = QAdd(r.added, contribution)]
                    ELSE IF returns
                    THEN [r EXCEPT !.pc = "done", !.added = QAdd(r.added, contribution)]
                    ELSE [r EXCEPT !.pc = "await_turn", !.turning = updated,
                                   !.added = QAdd(r.added, contribution)]]
    /\ UNCHANGED <<coShared, notCo>>

\* the sleep or corrective turn of invocation t ends: turn_state.balance = 0.0
CoTurnDone(t) ==
    /\ co_tasks[t].pc = "await_turn"
    /\ balance' = QZero
    /\ co_tasks' = [co_tasks EXCEPT ![t] = [co_tasks[t] EXCEPT !.pc = "done",
                                                             !.corrected = co_tasks[t].turning]]
    /\ UNCHANGED <<cmds, heading, coShared, notCo>>

NextShared ==
    \/ \E m \in CoMoves, d \in CoDurations : CoRunMove(m, d)
    \/ \E t \in DOMAIN co_tasks : CoStepDone(t)
    \/ \E t \in DOMAIN co_tasks : CoTurnDone(t)

SpecShared == InitShared /\ [][NextShared]_vars

\* the corrective commands balance_turn has issued in the current call
Corrections == { i \in DOMAIN cmds : cmds[i].by = "balance_turn" }

WithinEpsilon(b) == QLeq(QAbs(b), Q(1, 1000000))

\* C2 (as claimed): whenever balance_turn has returned and balance_speed > 0,
\* turn_state.balance is 0.
BalanceTurnZeroes ==
    (turn_pc = "balanced" /\ QLess(QZero, balance_speed)) => balance = QZero

\* C2 (amended): whenever balance_turn has returned and balance_speed > 0,
\* the balance is 0 if it exceeded 1e-6 in magnitude on entry and is left
\* as it was (at most 1e-6 in magnitude) otherwise.
BalanceTurnZeroesOutsideDeadBand ==
    (turn_pc = "balanced" /\ QLess(QZero, balance_speed)) =>
        /\ WithinEpsilon(balance)
        /\ balance = IF WithinEpsilon(bt_entry) THEN bt_entry ELSE QZero

\* a balance of 1.2 was found and has been reset, in a dry run
BalanceTurnZeroesWitness ==
    /\ turn_pc = "balanced"
    /\ dry_run
    /\ QLess(QZero, balance_speed)
    /\ bt_entry = Q(6, 5)
    /\ balance = QZero

\* C3: a balance_turn call that finds |balance| <= 1e-6 or balance_speed <= 0
\* returns at once: no command is issued, nothing is awaited and the balance
\* is left as it is.
BalanceTurnNoOp ==
    [][ (turn_pc = "balance" /\ (WithinEpsilon(balance) \/ QLeq(balance_speed, QZero)))
          => /\ turn_pc' = "balanced"
             /\ balance' = balance
             /\ cmds' = cmds
             /\ heading' = heading
             /\ elapsed' = elapsed ]_vars

\* balance_turn has returned from a balance of 4e-7 and from one of 1.2 at
\* a balance_speed of 0
BalanceTurnNoOpWitness ==
    /\ turn_pc = "balanced"
    /\ Corrections = {}
    /\ \/ QLess(QZero, balance_speed) /\ balance = Q(2, 5000000) /\ bt_entry = balance
       \/ balance_speed = QZero /\ balance = Q(6, 5) /\ bt_entry = balance

\* the one command balance_turn issues for a balance b
Correction(b) ==
    Cmd("balance_turn",
        IF QLess(QZero, b) THEN "turn_left" ELSE "turn_right",
        balance_speed,
        QMul(QDiv(QAbs(b), balance_speed), QInt(1000)))

\* C4: outside a dry run, a balance_turn call that finds |balance| > 1e-6 at
\* a balance_speed > 0 issues exactly one turn command, at balance_speed for
\* |balance| / balance_speed seconds, to the left for a positive balance and
\* to the right for a negative one; the balance keeps its value while the
\* turn is awaited and is 0 once balance_turn has returned.
BalanceTurnCorrects ==
    /\ (turn_pc = "await_turn" /\ ~dry_run) =>
          /\ balance = bt_entry
          /\ ~WithinEpsilon(balance)
          /\ Corrections = {Len(cmds)}
          /\ cmds[Len(cmds)] = Correction(balance)
    /\ (turn_pc = "balanced" /\ ~dry_run /\ QLess(QZero, balance_speed)
          /\ ~WithinEpsilon(bt_entry)) =>
          /\ balance = QZero
          /\ Corrections = {Len(cmds)}
          /\ cmds[Len(cmds)] = Correction(bt_entry)

\* the scenario: balance 1.2 at balance_speed 0.4 gave one left turn of 3.0 s
BalanceTurnCorrectsWitness ==
    /\ turn_pc = "balanced"
    /\ ~dry_run
    /\ bt_entry = Q(6, 5)
    /\ balance = QZero
    /\ cmds # <<>>
    /\ cmds[Len(cmds)] = Cmd("balance_turn", "turn_left", Q(2, 5), QInt(3000))

\* a run_move call has returned, with auto-balancing on a TurnState at a
\* positive balance_speed
BalancedMoveReturned ==
    /\ turn_pc \in {"done", "balanced"}
    /\ move # "none"
    /\ auto_balance_turns
    /\ tracked
    /\ QLess(QZero, balance_speed)

\* C5 (as claimed): after every completed run_move with auto-balancing the
\* turns commanded so far sum to exactly zero and the balance is 0.
HeadingExactlyZero ==
    BalancedMoveReturned => (heading = QZero /\ balance = QZero)

\* C5 (amended): after every completed run_move with auto-balancing the
\* turns commanded so far sum to the balance that is left (to 0 in a dry
\* run, which commands nothing), and that balance is at most 1e-6 in
\* magnitude.
HeadingWithinDeadBand ==
    BalancedMoveReturned =>
        /\ heading = IF dry_run THEN QZero ELSE balance
        /\ WithinEpsilon(balance)

\* a right turn of 3 s at 0.4 was followed by its correction
HeadingWithinDeadBandWitness ==
    /\ BalancedMoveReturned
    /\ ~dry_run
    /\ move = "turn_right"
    /\ duration_s = QInt(3)
    /\ Len(cmds) = 2
    /\ heading = QZero

-----------------------------------------------------------------------------
(* dance_routine.py and head_bob_beats.py: the loop of main over           *)
(* beat_times, from sd.play on.  Times are tenths of a second since        *)
(* start_time; code between two awaits takes no time; an await resumes at  *)
(* the time asked for or later.                                            *)

MaxSchedBeats == 5

MaxSchedTime == 8

\* BEATS_PER_MOVE of dance_routine.py and of head_bob_beats.py
BeatsPerMove == {2, 4}

\* move_duration_s: two tenths, or half a second
SchedMoveTicks == {2, 5}

\* how late an await resumes
Lateness == {0, 1}

RECURSIVE SortedSeq(_)
SortedSeq(S) ==
    IF S = {} THEN <<>>
    ELSE LET least == CHOOSE x \in S : \A y \in S : x <= y
         IN  <<least>> \o SortedSeq(S \ {least})

\* librosa.frames_to_time(beat_frames): increasing beat times
SchedTimelines ==
    { SortedSeq(S) : S \in { T \in SUBSET (0..MaxSchedTime) : Cardinality(T) <= MaxSchedBeats } }

notSch == <<secVars, seqVars, bpmVars, turnVars, detVars, liveVars, rangeVars, offVars,
            coVars>>

\* variant: no wait
wait_time_none(beat_time, now) == 0

\* wait_time = beat_time - current_time
wait_time(beat_time, now) == beat_time - now

InitSchedule ==
    /\ sch_pc = "start"
    /\ sch_now = 0
    /\ sch_i = 0
    /\ sch_beats \in SchedTimelines
    /\ sch_every \in BeatsPerMove
    /\ sch_move_s \in SchedMoveTicks
    /\ sch_wait = 0
    /\ sch_log = <<>>
    /\ SecIdle /\ SeqIdle /\ BpmIdle /\ TurnIdle /\ DetIdle /\ LiveIdle /\ RangeIdle
    /\ OffIdle /\ CoIdle

RECURSIVE Repeat(_, _)
Repeat(sq, n) == IF n = 0 THEN <<>> ELSE sq \o Repeat(sq, n - 1)

\* MOVE_SEQUENCE of dance_moves.py: 24 moves, then 100 rounds of four
MOVE_SEQUENCE ==
    Repeat(<<"head_bob">>, 8) \o Repeat(<<"side_sway">>, 8)
        \o Repeat(<<"walk_left", "walk_left", "walk_right", "walk_right">>, 2)
        \o Repeat(<<"twist", "bounce", "look_and_twist", "body_wave">>, 100)

\* the move started as the (move_index + 1)-th: dance_routine.py takes
\* MOVE_SEQUENCE[move_index % len(MOVE_SEQUENCE)]; head_bob_beats.py, the
\* script with BEATS_PER_MOVE = 4, has its one bob inline
MoveName(move_index) ==
    IF sch_every = 2 THEN MOVE_SEQUENCE[(move_index % Len(MOVE_SEQUENCE)) + 1]
    ELSE "look_down_up"

\* variant: every beat is handled
handled_every_beat(i) == TRUE

\* if i % BEATS_PER_MOVE != 0: continue
handled(i) == i % sch_every = 0

\* the first index from i on that the loop does not skip, or len(beat_times)
RECURSIVE SkipFrom(_)
SkipFrom(i) ==
    IF i >= Len(sch_beats) \/ handled(i) THEN i ELSE SkipFrom(i + 1)

\* the loop from beat index j on, at time t, up to its next await: the
\* loop sleeps when wait_time > 0 and starts the move at once otherwise
LoopFrom(j, t) ==
    /\ sch_now' = t
    /\ IF j >= Len(sch_beats)
       THEN /\ sch_pc' = "done"
            /\ sch_i' = Len(sch_beats)
            /\ sch_wait' = 0
            /\ sch_log' = sch_log
       ELSE /\ sch_i' = j
            /\ IF wait_time(sch_beats[j + 1], t) > 0
               THEN /\ sch_pc' = "sleep"
                    /\ sch_wait' = wait_time(sch_beats[j + 1], t)
                    /\ sch_log' = sch_log
               ELSE /\ sch_pc' = "move"
                    /\ sch_wait' = 0
                    /\ sch_log' = Append(sch_log, [beat |-> j, reached |-> t, waited |-> 0,
                                                   at |-> t,
                                                   move |-> MoveName(Len(sch_log))])
    /\ UNCHANGED <<sch_beats, sch_every, sch_move_s>>

\* start_time = time.time() and the first pass of the loop
LoopStart ==
    /\ sch_pc = "start"
    /\ LoopFrom(SkipFrom(0), 0)
    /\ UNCHANGED notSch

\* await asyncio.sleep(wait_time) ends and the move starts
BeatSleepDone ==
    /\ sch_pc = "sleep"
    /\ \E late \in Lateness :
          /\ sch_now' = sch_now + sch_wait + late
          /\ sch_log' = Append(sch_log, [beat |-> sch_i, reached |-> sch_now,
                                         waited |-> sch_wait, at |-> sch_now',
                                         move |-> MoveName(Len(sch_log))])
    /\ sch_pc' = "move"
    /\ sch_wait' = 0
    /\ UNCHANGED <<sch_i, sch_beats, sch_every, sch_move_s, notSch>>

\* the awaited move ends and the loop goes on to the next beat it handles
MoveEnd ==
    /\ sch_pc = "move"
    /\ \E late \in Lateness : LoopFrom(SkipFrom(sch_i + 1), sch_now + sch_move_s + late)
    /\ UNCHANGED notSch

NextSchedule ==
    \/ LoopStart
    \/ BeatSleepDone
    \/ MoveEnd

SpecSchedule == InitSchedule /\ [][NextSchedule]_vars

-----------------------------------------------------------------------------
(* realtime_bob.py: RealtimeBeatDetector.process_chunk.                    *)
(* Times are seconds.  What librosa finds in the rolling buffer is an      *)
(* input of each call: whether onset_detect reports an onset in the        *)
(* trailing 2 * CHUNK_DURATION of the buffer.                              *)

CHUNK_DURATION == Q(1, 10)

MIN_BEAT_INTERVAL == QZero

prediction_tolerance == Q(3, 20)

HistoryLen == 8

\* the value of time.time() when the detector is built
StartTime == QInt(1000)

\* the configured minimum and one that an operator might set instead
MinIntervals == { MIN_BEAT_INTERVAL, Q(1, 4) }

\* seconds between two process_chunk calls: the chunk cadence, or a late call
ChunkGaps == { CHUNK_DURATION, Q(1, 5) }

\* variant: the new entry goes to the front
DequeAppendLeft(dq, x) ==
    IF Len(dq) < HistoryLen THEN <<x>> \o dq ELSE <<x>> \o SubSeq(dq, 1, HistoryLen - 1)

\* variant: a list that is never trimmed
DequeAppendUnbounded(dq, x) == Append(dq, x)

\* deque(maxlen=8).append
DequeAppend(dq, x) ==
    IF Len(dq) < HistoryLen THEN Append(dq, x) ELSE Append(Tail(dq), x)

\* the sum of beat_times[i] - beat_times[i-1] for i in 1..len-1
RECURSIVE IntervalSum(_, _)
IntervalSum(h, i) ==
    IF i > Len(h) THEN QZero ELSE QAdd(QSub(h[i], h[i - 1]), IntervalSum(h, i + 1))

\* variant: the latest interval alone
MeanIntervalLatest(h) == QSub(h[Len(h)], h[Len(h) - 1])

\* np.mean(intervals)
MeanInterval(h) == QDiv(IntervalSum(h, 2), QInt(Len(h) - 1))

\* variant: an unset prediction counts as due
IsPredictedWhenUnset(t) ==
    \/ next_predicted_beat = <<>>
    \/ QLess(QAbs(QSub(next_predicted_beat, t)), prediction_tolerance)

\* next_predicted_beat is not None and abs(next_predicted_beat - t) < tolerance
IsPredicted(t) ==
    /\ next_predicted_beat # <<>>
    /\ QLess(QAbs(QSub(next_predicted_beat, t)), prediction_tolerance)

\* len(recent_beats) > 0 and current_time - self.last_beat_time > MIN_BEAT_INTERVAL
IsOnset(t, recent) ==
    /\ recent
    /\ QLess(min_beat_interval, QSub(t, last_beat_time))

\* variant: a beat that was predicted is reported as predicted
beat_type_predicted_first(predicted, onset) ==
    IF predicted THEN "predicted" ELSE "detected"

\* beat_type = "predicted" if predicted_beat and not onset_beat else "detected"
beat_type(predicted, onset) ==
    IF predicted /\ ~onset THEN "predicted" ELSE "detected"

\* process_chunk called at time t, with `recent` what onset detection found
process_chunk(t, recent) ==
    LET predicted == IsPredicted(t)
        onset == IsOnset(t, recent)
        fire == onset \/ predicted
        hist == IF fire THEN DequeAppend(beat_history, t) ELSE beat_history
        period == IF fire /\ Len(hist) >= 2 THEN MeanInterval(hist) ELSE beat_period
    IN  /\ current_time' = t
        /\ predicted_beat' = predicted
        /\ onset_beat' = onset
        /\ beat_history' = hist
        /\ beat_period' = period
        /\ last_beat_time' = IF fire THEN t ELSE last_beat_time
        /\ next_predicted_beat' = IF fire THEN QAdd(t, period) ELSE next_predicted_beat
        /\ det_ret' = IF fire
                      THEN <<TRUE, beat_type(predicted, onset)>>
                      ELSE <<FALSE, "None">>
        /\ chunk_no' = chunk_no + 1
        /\ UNCHANGED <<min_beat_interval, click_period>>

\* RealtimeBeatDetector.__init__
DetectorInit ==
    /\ current_time = StartTime
    /\ last_beat_time = QZero
    /\ beat_history = <<>>
    /\ beat_period = QDiv(QInt(60), QInt(START_BPM))
    /\ next_predicted_beat = <<>>
    /\ onset_beat = FALSE
    /\ predicted_beat = FALSE
    /\ det_ret = <<FALSE, "None">>
    /\ chunk_no = 0

InitDetector ==
    /\ DetectorInit
    /\ min_beat_interval \in MinIntervals
    /\ click_period = 0
    /\ DetOnly

\* one process_chunk call on arbitrary audio
ProcessChunk ==
    /\ chunk_no < MaxChunks
    /\ \E gap \in ChunkGaps, recent \in BOOLEAN :
          process_chunk(QAdd(current_time, gap), recent)
    /\ UNCHANGED notDet

NextDetector == ProcessChunk

SpecDetector == InitDetector /\ [][NextDetector]_vars

\* C8 (as claimed): no two consecutive fired beats are closer together than
\* the configured minimum interval.
FiresKeepMinInterval ==
    \A i \in 1..(Len(beat_history) - 1) :
        QLeq(min_beat_interval, QSub(beat_history[i + 1], beat_history[i]))

-----------------------------------------------------------------------------
(* process_chunk fed by a click track: one click every click_period        *)
(* chunks, the first in the first chunk, and one call per chunk.           *)

\* clicks every 0.4 s, 0.5 s, 0.6 s and 0.8 s
ClickPeriods == {4, 5, 6, 8}

\* What onset detection finds in call n: the click of this chunk; a click of
\* the chunk before, still inside the trailing two chunks, may be found again.
ClickOnsets(n) ==
    IF (n - 1) % click_period = 0 THEN {TRUE}
    ELSE IF n >= 2 /\ (n - 2) % click_period = 0 THEN BOOLEAN
    ELSE {FALSE}

InitClick ==
    /\ DetectorInit
    /\ min_beat_interval \in MinIntervals
    /\ click_period \in ClickPeriods
    /\ DetOnly

ClickChunk ==
    /\ chunk_no < MaxClickChunks
    /\ \E recent \in ClickOnsets(chunk_no + 1) :
          process_chunk(QAdd(current_time, CHUNK_DURATION), recent)
    /\ UNCHANGED notDet

NextClick == ClickChunk

SpecClick == InitClick /\ [][NextClick]_vars

\* the period of the click track, in seconds
ClickPeriodS == QMul(QInt(click_period), CHUNK_DURATION)

\* C9 (as claimed): on a click track of period P, once 2 beats have fired
\* the beat_period estimate is within one chunk duration of P, and stays so.
PeriodTracksClicks ==
    Len(beat_history) >= 2 =>
        QLeq(QAbs(QSub(beat_period, ClickPeriodS)), CHUNK_DURATION)

-----------------------------------------------------------------------------
(* realtime_bob.py: audio_processing_loop and the head_bob tasks it        *)
(* creates.  stream.read blocks until the next chunk is complete, chunk k  *)
(* being complete at StartTime + k * CHUNK_DURATION; tasks run while the   *)
(* loop is in its await asyncio.sleep(0.01).                               *)

BEATS_PER_BOB == 4

BOB_DURATION_RATIO == Q(4, 5)

LoopSleep == Q(1, 100)

\* int(x) for x >= 0
IntFloor(x) == x[1] \div x[2]

QMax(x, y) == IF QLess(x, y) THEN y ELSE x

\* int(detector.beat_period * BEATS_PER_BOB * BOB_DURATION_RATIO * 1000)
BobDurationMs(period) ==
    IntFloor(QMul(QMul(QMul(period, QInt(BEATS_PER_BOB)), BOB_DURATION_RATIO), QInt(1000)))

\* variant: await head_bob(...) in place of create_task
DispatchAwaits(bob_duration_ms) == Q(bob_duration_ms, 1000)

\* seconds the loop is held by asyncio.create_task(head_bob(...)): none
DispatchWait(bob_duration_ms) == QZero

\* when chunk k is complete
ChunkReadyAt(k) == QAdd(StartTime, QMul(QInt(k), CHUNK_DURATION))

NewTask(bob_duration_ms) ==
    [pc |-> "new", wake |-> QZero, bob_duration_ms |-> bob_duration_ms]

InitLive ==
    /\ DetectorInit
    /\ min_beat_interval = MIN_BEAT_INTERVAL
    /\ click_period = 0
    /\ loop_pc = "read"
    /\ wall = StartTime
    /\ beat_count = 0
    /\ bob_count = 0
    /\ chunk_count = 0
    /\ live_dry \in BOOLEAN
    /\ tasks = <<>>
    /\ LiveOnly

\* variant: a bob on every fired beat
bob_on_every_beat(beat_detected, beats) == beat_detected

\* if beat_detected: ... if beat_count % BEATS_PER_BOB == 0:
bob_on_beat(beat_detected, beats) == beat_detected /\ beats % BEATS_PER_BOB = 0

\* one pass of the while loop, from stream.read to the await of the sleep
ReadAndProcess ==
    /\ loop_pc = "read"
    /\ chunk_count < MaxLiveChunks
    /\ LET t == QMax(wall, ChunkReadyAt(chunk_count + 1))
       IN  /\ \E recent \in BOOLEAN : process_chunk(t, recent)
           /\ beat_count' = IF det_ret'[1] THEN beat_count + 1 ELSE beat_count
           /\ IF bob_on_beat(det_ret'[1], beat_count')
              THEN /\ bob_count' = bob_count + 1
                   /\ tasks' = Append(tasks, NewTask(BobDurationMs(beat_period')))
                   /\ wall' = QAdd(t, DispatchWait(BobDurationMs(beat_period')))
              ELSE /\ UNCHANGED <<bob_count, tasks>>
                   /\ wall' = t
    /\ chunk_count' = chunk_count + 1
    /\ loop_pc' = "sleep"
    /\ UNCHANGED <<live_dry, notLive>>

\* a task can run: it is new, or what it awaits ends before the sleep does
Ready(task) == task.pc = "new" \/ QLeq(task.wake, QAdd(wall, LoopSleep))

RemoveAt(sq, i) == SubSeq(sq, 1, i - 1) \o SubSeq(sq, i + 1, Len(sq))

\* head_bob runs from one await to its next
TaskResume(i) ==
    /\ loop_pc = "sleep"
    /\ i \in DOMAIN tasks
    /\ Ready(tasks[i])
    /\ LET task == tasks[i]
           at == IF task.pc = "new" THEN wall ELSE QMax(task.wake, wall)
           single_move_ms == task.bob_duration_ms \div 3
           move_s == Q(single_move_ms, 1000)
           pause_s == QDiv(Q(single_move_ms, 1000), QInt(2))
           awaiting(pc, dur) == [task EXCEPT !.pc = pc, !.wake = QAdd(at, dur)]
       IN  tasks' =
             IF live_dry
             THEN IF task.pc = "new"
                  THEN [tasks EXCEPT ![i] = awaiting("dry_sleep", Q(task.bob_duration_ms, 1000))]
                  ELSE RemoveAt(tasks, i)
             ELSE CASE task.pc = "new" -> [tasks EXCEPT ![i] = awaiting("look_down", move_s)]
                    [] task.pc = "look_down" -> [tasks EXCEPT ![i] = awaiting("sleep_1", pause_s)]
                    [] task.pc = "sleep_1" -> [tasks EXCEPT ![i] = awaiting("look_up", move_s)]
                    [] task.pc = "look_up" -> [tasks EXCEPT ![i] = awaiting("sleep_2", pause_s)]
                    [] OTHER -> RemoveAt(tasks, i)
    /\ UNCHANGED <<loop_pc, wall, beat_count, bob_count, chunk_count, live_dry, detVars, notLive>>

\* the loop's asyncio.sleep(0.01) ends
SleepDone ==
    /\ loop_pc = "sleep"
    /\ \A i \in DOMAIN tasks : ~Ready(tasks[i])
    /\ wall' = QAdd(wall, LoopSleep)
    /\ loop_pc' = "read"
    /\ UNCHANGED <<beat_count, bob_count, chunk_count, live_dry, tasks, detVars, notLive>>

NextLive ==
    \/ ReadAndProcess
    \/ \E i \in 1..MaxLiveChunks : TaskResume(i)
    \/ SleepDone

SpecLive == InitLive /\ [][NextLive]_vars

\* C10: the loop is never held up by a move: chunk k is processed when it
\* is complete, at k chunk durations after the start, whatever tasks are in
\* flight, and the loop is back at stream.read 0.01 s later.
LoopKeepsCadence ==
    /\ chunk_count > 0 => current_time = ChunkReadyAt(chunk_count)
    /\ loop_pc = "sleep" => wall = current_time
    /\ loop_pc = "read" => QLeq(wall, QAdd(current_time, LoopSleep))

\* two moves are in flight, both started, while the loop handles a chunk
\* later than the one that dispatched the second
LoopKeepsCadenceWitness ==
    /\ Len(tasks) >= 2
    /\ \A i \in DOMAIN tasks : tasks[i].pc # "new"
    /\ bob_count >= 2
    /\ beat_count % BEATS_PER_BOB # 0
    /\ loop_pc = "sleep"

-----------------------------------------------------------------------------
(* Offline run: main and perform_block of custom_example.py.               *)
(*                                                                         *)
(* off_pc names the statement main is at.  The positions that are awaits   *)
(* (AwaitPcs) are the suspension points of the coroutine: the awaited call *)
(* has been started and main resumes when it completes, fails or the task  *)
(* is cancelled.  dog.mqtt.connected is written by the MQTT client thread, *)
(* so it may change between any two steps of main.                         *)

Scripts == {"beat_routine", "examples"}

\* timeout = 10 and state_timeout = 10 seconds, in tenths of a second
timeout == 100

\* what one await asyncio.sleep(0.1) adds to the clock, in tenths of a
\* second: the nominal 0.1 s, or a late wake-up
SleepTicks == {1, 60}

\* battery levels the telemetry may carry
SocLevels == {9, 10, 19, 20}

\* dog.mqtt.get_state(): None, a state without BMS data, or a state whose
\* bms.soc is the given level
Telemetry ==
    {StateNone, [kind |-> "NoBms", soc |-> 0]}
        \cup {[kind |-> "State", soc |-> n] : n \in SocLevels}

\* counts handed to build_sequence for warmup, verse, chorus, finale
BlockCounts == <<10, 15, 15, 10>>

BlockLen(b) == Min(BlockCounts[b], MaxBlockMoves)

BATTERY_LOW == 20

BATTERY_CRITICAL == 10

\* variant: the handlers catch nothing
CatchesNothing(e) == FALSE

\* "except Exception" catches every Exception subclass and lets
\* asyncio.CancelledError, a BaseException, through
Catches(e) == e = "Exception"

\* variant: the wait loops have no timeout
TimedOutNever(waited) == FALSE

\* "if elapsed > timeout" of both wait loops
TimedOut(waited) == waited > timeout

\* variant: no battery level aborts the run
IsCriticalNever(soc) == FALSE

\* "if battery_soc < 10"
IsCritical(soc) == soc < BATTERY_CRITICAL

\* "if battery_soc < 20"
IsLow(soc) == soc < BATTERY_LOW

\* variant: perform_block does not check the link
LinkLostNever(connected) == FALSE

\* "if not dog.mqtt.connected" of perform_block
LinkLost(connected) == ~connected

\* the positions where main is suspended in an await, by enclosing try
SetupAwaits == {"conn_sleep", "state_sleep", "stabilize", "stand_sleep"}

DanceAwaits == {"music", "block_sleep", "move_await", "pause", "section_reset",
                "section_sleep", "walk_sleep"}

CleanupAwaits == {"final_reset"}

AwaitPcs == SetupAwaits \cup DanceAwaits \cup CleanupAwaits

\* variant: a failure sends the run back to the connection wait
HandlerRetry(p, e) == "conn_check"

\* where an exception e raised at position p is handled first
Handler(p, e) ==
    IF p \in DanceAwaits \cup {"move_check"}
    THEN IF Catches(e) THEN "inner_except" ELSE "inner_finally"
    ELSE IF Catches(e) THEN "outer_except" ELSE "outer_finally"

InitOffline ==
    /\ off_script \in Scripts
    /\ off_pc = "init"
    /\ dog_connected = FALSE
    /\ state = StateNone
    /\ off_elapsed = 0
    /\ off_block = 0
    /\ off_i = 0
    /\ off_calls = <<>>
    /\ off_log = {}
    /\ off_exc = "none"
    /\ off_outcome = "running"
    /\ off_interrupt = -1
    /\ off_raised = {}
    /\ OffOnly

\* dog = Go1(); dog.init(); start_time = time.time()
DogInit ==
    /\ off_pc = "init"
    /\ off_calls' = Append(off_calls, "init")
    /\ off_elapsed' = 0
    /\ off_pc' = "conn_check"
    /\ UNCHANGED <<off_raised, off_script, dog_connected, state, off_block, off_i,
                   off_log, off_exc,
                   off_outcome, off_interrupt, notOff>>

\* one evaluation of "while not dog.mqtt.connected" and of the timeout test
ConnCheck ==
    /\ off_pc = "conn_check"
    /\ IF dog_connected
       THEN /\ off_pc' = "get_state"
            /\ off_elapsed' = 0
            /\ UNCHANGED <<off_log, off_exc>>
       ELSE IF TimedOut(off_elapsed)
       THEN /\ off_log' = off_log \cup {"conn_timeout"}
            /\ off_exc' = "Exception"
            /\ off_pc' = Handler("conn_check", "Exception")
            /\ UNCHANGED off_elapsed
       ELSE /\ off_pc' = "conn_sleep"
            /\ UNCHANGED <<off_log, off_exc, off_elapsed>>
    /\ UNCHANGED <<off_raised, off_script, dog_connected, state, off_block, off_i,
                   off_calls,
                   off_outcome, off_interrupt, notOff>>

\* await asyncio.sleep(0.1) of the connection wait completes
ConnSleep ==
    /\ off_pc = "conn_sleep"
    /\ \E d \in SleepTicks : off_elapsed' = off_elapsed + d
    /\ off_pc' = "conn_check"
    /\ UNCHANGED <<off_raised, off_script, dog_connected, state, off_block, off_i,
                   off_calls, off_log,
                   off_exc, off_outcome, off_interrupt, notOff>>

\* state = dog.mqtt.get_state(); beat_routine then waits for a state,
\* examples reads state.bms.soc at once
GetState ==
    /\ off_pc = "get_state"
    /\ state' \in Telemetry
    /\ off_elapsed' = 0
    /\ off_pc' = IF off_script = "beat_routine" THEN "state_check" ELSE "battery"
    /\ UNCHANGED <<off_raised, off_script, dog_connected, off_block, off_i, off_calls,
                   off_log, off_exc,
                   off_outcome, off_interrupt, notOff>>

\* one evaluation of "while not state" and of the timeout test
StateCheck ==
    /\ off_pc = "state_check"
    /\ IF state # StateNone
       THEN /\ off_pc' = "battery"
            /\ off_elapsed' = 0
            /\ UNCHANGED <<off_log, off_exc>>
       ELSE IF TimedOut(off_elapsed)
       THEN /\ off_log' = off_log \cup {"state_timeout"}
            /\ off_exc' = "Exception"
            /\ off_pc' = Handler("state_check", "Exception")
            /\ UNCHANGED off_elapsed
       ELSE /\ off_pc' = "state_sleep"
            /\ UNCHANGED <<off_log, off_exc, off_elapsed>>
    /\ UNCHANGED <<off_raised, off_script, dog_connected, state, off_block, off_i,
                   off_calls,
                   off_outcome, off_interrupt, notOff>>

\* await asyncio.sleep(0.1) completes; state = dog.mqtt.get_state()
StateSleep ==
    /\ off_pc = "state_sleep"
    /\ \E d \in SleepTicks : off_elapsed' = off_elapsed + d
    /\ state' \in Telemetry
    /\ off_pc' = "state_check"
    /\ UNCHANGED <<off_raised, off_script, dog_connected, off_block, off_i, off_calls,
                   off_log, off_exc,
                   off_outcome, off_interrupt, notOff>>

\* the battery check: "return" leaves main through the outer finally
Battery ==
    /\ off_pc = "battery"
    /\ IF state.kind \in {"None", "NoBms"}
       THEN IF off_script = "beat_routine"
            THEN /\ off_log' = off_log \cup {"missing_bms"}
                 /\ off_pc' = "outer_finally"
                 /\ UNCHANGED off_exc
            ELSE \* state.bms.soc raises AttributeError
                 /\ off_exc' = "Exception"
                 /\ off_pc' = Handler("battery", "Exception")
                 /\ UNCHANGED off_log
       ELSE /\ off_log' = off_log
                  \cup (IF IsLow(state.soc) THEN {"battery_low"} ELSE {})
                  \cup (IF IsCritical(state.soc) THEN {"battery_critical"} ELSE {})
            /\ off_pc' = IF IsCritical(state.soc) THEN "outer_finally" ELSE "stabilize"
            /\ UNCHANGED off_exc
    /\ UNCHANGED <<off_raised, off_script, dog_connected, state, off_elapsed, off_block,
                   off_i,
                   off_calls, off_outcome, off_interrupt, notOff>>

\* await asyncio.sleep(2) completes; dog.set_mode(Go1Mode.STAND)
Stabilize ==
    /\ off_pc = "stabilize"
    /\ off_calls' = Append(off_calls, "set_mode")
    /\ off_pc' = "stand_sleep"
    /\ UNCHANGED <<off_raised, off_script, dog_connected, state, off_elapsed, off_block,
                   off_i, off_log,
                   off_exc, off_outcome, off_interrupt, notOff>>

\* await asyncio.sleep(3) completes; the inner try begins with
\* await maybe_start_music()
StandSleep ==
    /\ off_pc = "stand_sleep"
    /\ off_pc' = "music"
    /\ UNCHANGED <<off_raised, off_script, dog_connected, state, off_elapsed, off_block,
                   off_i,
                   off_calls, off_log, off_exc, off_outcome, off_interrupt, notOff>>

\* variant: perform_block goes straight to its moves in both scripts
BlockEnterNoMode(b) ==
    /\ off_block' = b
    /\ off_i' = 0
    /\ off_pc' = "move_check"
    /\ UNCHANGED off_calls

\* the call perform_block(...) number b up to its first await: beat_routine
\* sets the mode and sleeps, examples goes straight to the move loop
BlockEnter(b) ==
    /\ off_block' = b
    /\ off_i' = 0
    /\ IF off_script = "beat_routine"
       THEN /\ off_calls' = Append(off_calls, "set_mode")
            /\ off_pc' = "block_sleep"
       ELSE /\ off_pc' = "move_check"
            /\ UNCHANGED off_calls

\* maybe_start_music returns; the sequences are built; first perform_block
Music ==
    /\ off_pc = "music"
    /\ BlockEnter(1)
    /\ UNCHANGED <<off_raised, off_script, dog_connected, state, off_elapsed, off_log,
                   off_exc,
                   off_outcome, off_interrupt, notOff>>

\* await asyncio.sleep(1) of perform_block completes
BlockSleep ==
    /\ off_pc = "block_sleep"
    /\ off_pc' = "move_check"
    /\ UNCHANGED <<off_raised, off_script, dog_connected, state, off_elapsed, off_block,
                   off_i,
                   off_calls, off_log, off_exc, off_outcome, off_interrupt, notOff>>

\* one iteration head of "for i, move in enumerate(moves)": the loop ends and
\* main awaits dog.reset_body(), or the link check raises RuntimeError, or
\* the move is issued
MoveCheck ==
    /\ off_pc = "move_check"
    /\ IF off_i >= BlockLen(off_block)
       THEN /\ off_calls' = Append(off_calls, "reset_body")
            /\ off_pc' = "section_reset"
            /\ UNCHANGED <<off_log, off_exc>>
       ELSE IF LinkLost(dog_connected)
       THEN /\ off_log' = off_log \cup {"link_lost"}
            /\ off_exc' = "Exception"
            /\ off_pc' = Handler("move_check", "Exception")
            /\ UNCHANGED off_calls
       ELSE /\ off_calls' = Append(off_calls, "move")
            /\ off_pc' = "move_await"
            /\ UNCHANGED <<off_log, off_exc>>
    /\ UNCHANGED <<off_raised, off_script, dog_connected, state, off_elapsed, off_block,
                   off_i,
                   off_outcome, off_interrupt, notOff>>

\* await move.func(...) completes, or fails: perform_block logs and re-raises
MoveDone ==
    /\ off_pc = "move_await"
    /\ \/ /\ off_pc' = "pause"
          /\ UNCHANGED <<off_log, off_exc, off_raised>>
       \/ /\ off_log' = off_log \cup {"move_failed"}
          /\ off_exc' = "Exception"
          /\ off_pc' = Handler("move_await", "Exception")
          /\ off_raised' = off_raised \cup {"move"}
    /\ UNCHANGED <<off_script, dog_connected, state, off_elapsed, off_block, off_i,
                   off_calls, off_outcome, off_interrupt, notOff>>

\* await asyncio.sleep(pause_s) completes
PauseDone ==
    /\ off_pc = "pause"
    /\ off_i' = off_i + 1
    /\ off_pc' = "move_check"
    /\ UNCHANGED <<off_raised, off_script, dog_connected, state, off_elapsed, off_block,
                   off_calls,
                   off_log, off_exc, off_outcome, off_interrupt, notOff>>

\* await dog.reset_body() after a block completes or fails
SectionResetDone ==
    /\ off_pc = "section_reset"
    /\ \/ /\ off_pc' = "section_sleep"
          /\ UNCHANGED <<off_exc, off_raised>>
       \/ /\ off_exc' = "Exception"
          /\ off_pc' = Handler("section_reset", "Exception")
          /\ off_raised' = off_raised \cup {"section_reset"}
    /\ UNCHANGED <<off_script, dog_connected, state, off_elapsed, off_block, off_i,
                   off_calls, off_log, off_outcome, off_interrupt, notOff>>

\* the sleep after a section completes: next perform_block, or after the
\* finale dog.set_mode(Go1Mode.WALK)
SectionSleepDone ==
    /\ off_pc = "section_sleep"
    /\ IF off_block < Len(BlockCounts)
       THEN BlockEnter(off_block + 1)
       ELSE /\ off_calls' = Append(off_calls, "set_mode")
            /\ off_pc' = "walk_sleep"
            /\ UNCHANGED <<off_block, off_i>>
    /\ UNCHANGED <<off_raised, off_script, dog_connected, state, off_elapsed, off_log,
                   off_exc,
                   off_outcome, off_interrupt, notOff>>

\* await asyncio.sleep(2) completes: the routine completed
WalkSleepDone ==
    /\ off_pc = "walk_sleep"
    /\ off_log' = off_log \cup {"completed"}
    /\ off_pc' = "inner_finally"
    /\ UNCHANGED <<off_raised, off_script, dog_connected, state, off_elapsed, off_block,
                   off_i,
                   off_calls, off_exc, off_outcome, off_interrupt, notOff>>

\* "except Exception as e" of the dance sequence: log, fall into the finally
InnerExcept ==
    /\ off_pc = "inner_except"
    /\ off_log' = off_log \cup {"dance_error"}
    /\ off_exc' = "none"
    /\ off_pc' = "inner_finally"
    /\ UNCHANGED <<off_raised, off_script, dog_connected, state, off_elapsed, off_block,
                   off_i,
                   off_calls, off_outcome, off_interrupt, notOff>>

\* the inner finally: "if dog and dog.mqtt.connected: await dog.reset_body()";
\* a pending CancelledError goes on to the outer finally afterwards
InnerFinally ==
    /\ off_pc = "inner_finally"
    /\ IF dog_connected
       THEN /\ off_calls' = Append(off_calls, "reset_body")
            /\ off_pc' = "final_reset"
       ELSE /\ off_pc' = "outer_finally"
            /\ UNCHANGED off_calls
    /\ UNCHANGED <<off_raised, off_script, dog_connected, state, off_elapsed, off_block,
                   off_i, off_log,
                   off_exc, off_outcome, off_interrupt, notOff>>

\* the try/except Exception around a cleanup call that raised e: a caught
\* failure is logged as a warning and the exception pending before it (if
\* any) stays pending; one that is not caught replaces it
CleanupFailure(e, warning) ==
    IF Catches(e)
    THEN /\ off_log' = off_log \cup {warning}
         /\ UNCHANGED off_exc
    ELSE /\ off_exc' = e
         /\ UNCHANGED off_log

\* await dog.reset_body() of the inner finally completes or fails
FinalResetDone ==
    /\ off_pc = "final_reset"
    /\ \/ UNCHANGED <<off_log, off_exc, off_raised>>
       \/ /\ CleanupFailure("Exception", "reset_failed")
          /\ off_raised' = off_raised \cup {"final_reset"}
    /\ off_pc' = "outer_finally"
    /\ UNCHANGED <<off_script, dog_connected, state, off_elapsed, off_block, off_i,
                   off_calls, off_outcome, off_interrupt, notOff>>

\* "except Exception as e" of main: log, fall into the finally
OuterExcept ==
    /\ off_pc = "outer_except"
    /\ off_log' = off_log \cup {"init_error"}
    /\ off_exc' = "none"
    /\ off_pc' = "outer_finally"
    /\ UNCHANGED <<off_raised, off_script, dog_connected, state, off_elapsed, off_block,
                   off_i,
                   off_calls, off_outcome, off_interrupt, notOff>>

\* what main hands to its caller: a pending exception is raised, otherwise
\* main returns None
Outcome(e) == IF e = "none" THEN "returned" ELSE "raised"

\* the outer finally: dog.mqtt.disconnect() under its own try/except, then
\* main ends (dog is not None on every path that has called Go1())
OuterFinally ==
    /\ off_pc = "outer_finally"
    /\ off_calls' = Append(off_calls, "disconnect")
    /\ \/ /\ dog_connected' = FALSE
          /\ UNCHANGED <<off_log, off_exc, off_raised>>
       \/ /\ CleanupFailure("Exception", "disconnect_failed")
          /\ off_raised' = off_raised \cup {"disconnect"}
          /\ UNCHANGED dog_connected
    /\ off_outcome' = Outcome(off_exc')
    /\ off_pc' = "done"
    /\ UNCHANGED <<off_script, state, off_elapsed, off_block, off_i, off_interrupt, notOff>>

\* the MQTT client thread sees the broker connection come up
LinkUp ==
    /\ off_pc \in {"conn_check", "conn_sleep"}
    /\ ~dog_connected
    /\ dog_connected' = TRUE
    /\ UNCHANGED <<off_raised, off_script, off_pc, state, off_elapsed, off_block, off_i,
                   off_calls,
                   off_log, off_exc, off_outcome, off_interrupt, notOff>>

\* the MQTT client thread sees the broker connection drop
LinkDrop ==
    /\ off_pc # "done"
    /\ dog_connected
    /\ dog_connected' = FALSE
    /\ UNCHANGED <<off_raised, off_script, off_pc, state, off_elapsed, off_block, off_i,
                   off_calls,
                   off_log, off_exc, off_outcome, off_interrupt, notOff>>

\* the task of main is cancelled (asyncio.run on Ctrl+C, or its caller):
\* CancelledError is raised at the await main is suspended in
Interrupt ==
    /\ off_pc \in AwaitPcs
    /\ off_interrupt = -1
    /\ off_interrupt' = Len(off_calls)
    /\ off_exc' = "CancelledError"
    /\ off_pc' = Handler(off_pc, "CancelledError")
    /\ UNCHANGED <<off_raised, off_script, dog_connected, state, off_elapsed, off_block,
                   off_i,
                   off_calls, off_log, off_outcome, notOff>>

NextOffline ==
    \/ DogInit \/ ConnCheck \/ ConnSleep \/ GetState \/ StateCheck \/ StateSleep
    \/ Battery \/ Stabilize \/ StandSleep \/ Music \/ BlockSleep \/ MoveCheck
    \/ MoveDone \/ PauseDone \/ SectionResetDone \/ SectionSleepDone \/ WalkSleepDone
    \/ InnerExcept \/ InnerFinally \/ FinalResetDone \/ OuterExcept \/ OuterFinally
    \/ LinkUp \/ LinkDrop \/ Interrupt

SpecOffline == InitOffline /\ [][NextOffline]_vars

-----------------------------------------------------------------------------
(* Claims about the offline run.                                           *)

Terminated == off_pc = "done"

Issued(c) == \E k \in DOMAIN off_calls : off_calls[k] = c

\* the last two actuator calls of the run are reset_body, disconnect
EndsWithResetAndDisconnect ==
    /\ Len(off_calls) >= 2
    /\ off_calls[Len(off_calls)] = "disconnect"
    /\ off_calls[Len(off_calls) - 1] = "reset_body"

\* C11: every run of the offline scheduler, whatever its outcome, attempts
\* one final reset_body and then one disconnect before it terminates.
RunEndsWithResetAndDisconnect == Terminated => EndsWithResetAndDisconnect

\* C12: a failure raised by the final reset_body or by disconnect during
\* cleanup is recorded, never leaves the run as an exception (only a
\* cancellation does), and a failing reset is still followed by the
\* disconnect attempt.
CleanupFailuresContained ==
    /\ "final_reset" \in off_raised => "reset_failed" \in off_log
    /\ "disconnect" \in off_raised => "disconnect_failed" \in off_log
    /\ Terminated /\ "final_reset" \in off_raised
           => off_calls[Len(off_calls)] = "disconnect"
    /\ Terminated /\ off_outcome = "raised"
           => off_exc = "CancelledError" /\ off_interrupt >= 0

CleanupFailuresContainedWitness ==
    /\ Terminated
    /\ {"final_reset", "disconnect"} \subseteq off_raised
    /\ off_outcome = "returned"

\* the interrupt was delivered after at least one move had been issued
InterruptedWhileMoving ==
    /\ off_interrupt >= 0
    /\ \E k \in 1..off_interrupt : off_calls[k] = "move"

\* C13: an interrupt arriving at a suspension point of a run that has
\* started moving routes through the draining step: reset_body (the one in
\* flight at the interrupt or a later one) and disconnect are executed
\* before the run unwinds, and no move is issued after the interrupt.
InterruptRoutesThroughDraining ==
    Terminated /\ InterruptedWhileMoving =>
        /\ \E k \in off_interrupt..Len(off_calls) : off_calls[k] = "reset_body"
        /\ off_calls[Len(off_calls)] = "disconnect"
        /\ \A k \in (off_interrupt + 1)..Len(off_calls) : off_calls[k] # "move"

\* the positions of main from the handlers of the dance sequence onwards
CleanupPcs == {"inner_except", "inner_finally", "final_reset", "outer_finally", "done"}

\* C14: when perform_block finds the link disconnected before a move, that
\* move is not issued, the failure is raised at once, no move is issued
\* afterwards in this or a later section, and the run goes on to cleanup.
LinkLossAbortsBlock ==
    [][/\ (off_pc = "move_check" /\ off_i < BlockLen(off_block) /\ ~dog_connected)
            => /\ off_calls' = off_calls
               /\ off_pc' = "inner_except"
               /\ "link_lost" \in off_log'
       /\ "link_lost" \in off_log
            => /\ off_calls' # Append(off_calls, "move")
               /\ off_pc \in CleanupPcs
               /\ off_pc' \in CleanupPcs]_vars

LinkLossAbortsBlockWitness ==
    /\ Terminated
    /\ "link_lost" \in off_log
    /\ Issued("move")
    /\ off_block = 2
    /\ off_calls[Len(off_calls)] = "disconnect"

\* the lifecycle phase main is in: 0 Idle, 1 Connecting, 2 AwaitingTelemetry,
\* 3 Armed, 4 Running, 5 Draining (handlers and cleanup), 6 Disconnected
PhaseOf(p) ==
    CASE p = "init" -> 0
      [] p \in {"conn_check", "conn_sleep"} -> 1
      [] p \in {"get_state", "state_check", "state_sleep", "battery"} -> 2
      [] p \in {"stabilize", "stand_sleep"} -> 3
      [] p \in DanceAwaits \cup {"move_check"} -> 4
      [] p \in {"inner_except", "inner_finally", "final_reset", "outer_except",
                "outer_finally"} -> 5
      [] p = "done" -> 6

MotionCommands == {"set_mode", "move", "reset_body"}

\* C15: the actuator calls of a run follow the lifecycle order: no set_mode,
\* move or reset_body before the link was seen connected and a telemetry
\* state was read, no phase entered again after a later one, and disconnect
\* is the last actuator call.
LifecycleOrder ==
    /\ [](/\ (\E c \in MotionCommands : Issued(c))
                => PhaseOf(off_pc) >= 3 /\ state.kind = "State"
          /\ \A k \in DOMAIN off_calls :
                off_calls[k] = "disconnect" => k = Len(off_calls) /\ Terminated
          /\ Terminated => off_calls[Len(off_calls)] = "disconnect")
    /\ [][PhaseOf(off_pc') >= PhaseOf(off_pc)]_vars

LifecycleOrderWitness ==
    /\ Terminated
    /\ "completed" \in off_log
    /\ \A c \in MotionCommands : Issued(c)
    /\ off_outcome = "returned"

WaitTimedOut == "conn_timeout" \in off_log \/ "state_timeout" \in off_log

\* C16: the connection wait and the first-telemetry wait are bounded by the
\* 10 s timeout: neither loop sleeps again once the clock has passed the
\* timeout (and every sleep advances the clock), and a run whose wait timed
\* out ends as a logged failure without any motion command.
WaitsBounded ==
    /\ \A d \in SleepTicks : d > 0
    /\ off_pc \in {"conn_sleep", "state_sleep"} => off_elapsed <= timeout
    /\ WaitTimedOut =>
         /\ off_elapsed > timeout
         /\ PhaseOf(off_pc) >= 5
         /\ \A c \in MotionCommands : ~Issued(c)
    /\ WaitTimedOut /\ Terminated =>
         /\ "init_error" \in off_log
         /\ off_calls = <<"init", "disconnect">>

WaitsBoundedWitness ==
    /\ Terminated
    /\ "state_timeout" \in off_log
    /\ off_elapsed = timeout + 1
    /\ off_script = "beat_routine"

\* C17: a first telemetry below 10 percent aborts the run before motion: no
\* set_mode and no move (nor reset_body) is ever issued; a level from 10 to
\* below 20 percent is logged as a warning and the run goes on to motion.
BatteryGate ==
    /\ []("battery_critical" \in off_log =>
             /\ state.soc < 10
             /\ \A c \in MotionCommands : ~Issued(c))
    /\ []((\E c \in MotionCommands : Issued(c)) => state.soc >= 10)
    /\ [][off_pc = "battery" /\ off_pc' # "battery" /\ state.kind = "State" =>
             /\ state.soc < 10 =>
                   /\ off_pc' = "outer_finally"
                   /\ "battery_critical" \in off_log'
             /\ (state.soc >= 10 /\ state.soc < 20) =>
                   /\ off_pc' = "stabilize"
                   /\ "battery_low" \in off_log'
                   /\ "battery_critical" \notin off_log'
             /\ state.soc >= 20 =>
                   /\ off_pc' = "stabilize"
                   /\ off_log' = off_log]_vars

BatteryGateWitness ==
    /\ Terminated
    /\ state.kind = "State"
    /\ state.soc = 9
    /\ off_log = {"battery_low", "battery_critical"}
    /\ off_calls = <<"init", "disconnect">>

\* the faults a run detected: connection timeout, telemetry unavailable,
\* telemetry without battery data, link lost mid-run, a failing move
FaultsLogged ==
    off_log \cap {"conn_timeout", "state_timeout", "missing_bms", "link_lost", "move_failed"}

\* C18: every such fault is surfaced to the caller as the terminal status of
\* the run, distinguishable from successful completion (whose outcome is a
\* plain return of None).
FaultsSurfaced == Terminated /\ FaultsLogged # {} => off_outcome # "returned"

-----------------------------------------------------------------------------
(* BeatModeMapper.get_beat_time_range (custom_example.py).                 *)

\* Python list indexing: a negative index counts from the end, an index
\* outside -len..len-1 raises IndexError
InRange(s, i) == i < Len(s) /\ i >= -Len(s)

PyIndex(s, i) == IF i >= 0 THEN s[i + 1] ELSE s[Len(s) + i + 1]

\* variant: no clamping, an index past the end raises IndexError
get_beat_time_range_unclamped(bt, sb, eb) ==
    IF sb < 0 \/ eb < 0 THEN <<"ValueError">>
    ELSE IF sb >= Len(bt) \/ eb > Len(bt) \/ ~InRange(bt, eb - 1) THEN <<"IndexError">>
    ELSE <<"ok", PyIndex(bt, sb), PyIndex(bt, eb - 1)>>

\* the value the call returns, <<"ok", start_time, end_time>>, or the
\* exception it raises
get_beat_time_range(bt, sb, eb) ==
    IF sb < 0 \/ eb < 0 THEN <<"ValueError">>
    ELSE LET n == Len(bt)
             start_c == IF sb >= n THEN n - 1 ELSE sb
             end_c == IF eb > n THEN n ELSE eb
             start_i == IF start_c < n THEN start_c ELSE -1
             end_i == IF end_c - 1 < n THEN end_c - 1 ELSE -1
         IN  IF InRange(bt, start_i) /\ InRange(bt, end_i)
             THEN <<"ok", PyIndex(bt, start_i), PyIndex(bt, end_i)>>
             ELSE <<"IndexError">>

\* the warnings the call logs
RangeWarnings(bt, sb, eb) ==
    IF sb < 0 \/ eb < 0 THEN {}
    ELSE (IF sb >= Len(bt) THEN {"start_exceeds"} ELSE {})
            \cup (IF eb > Len(bt) THEN {"end_exceeds"} ELSE {})

\* the indices a caller may hand in
RangeIndices == -2..(MaxBeats + 2)

InitTimeRange ==
    /\ beat_times \in Timelines \cup {<<>>}
    /\ start_beat \in RangeIndices
    /\ end_beat \in RangeIndices
    /\ range_ret = <<>>
    /\ range_warnings = {}
    /\ mode_ret = "none"
    /\ RangeOnly

GetBeatTimeRange ==
    /\ range_ret = <<>>
    /\ range_ret' = get_beat_time_range(beat_times, start_beat, end_beat)
    /\ range_warnings' = RangeWarnings(beat_times, start_beat, end_beat)
    /\ UNCHANGED <<beat_times, sections, start_beat, end_beat, mode_ret, notRange>>

\* variant: the fallback of the last branch is DANCE2
get_mode_for_beat_range_no_fallback(sb, eb) ==
    LET beat_range == eb - sb
    IN  IF beat_range <= 2 THEN "STAND"
        ELSE IF beat_range <= 4 THEN "DANCE1"
        ELSE "DANCE2"

get_mode_for_beat_range(sb, eb) ==
    LET beat_range == eb - sb
    IN  IF beat_range <= 2 THEN "STAND"
        ELSE IF beat_range <= 4 THEN "DANCE1"
        ELSE IF beat_range <= 8 THEN "DANCE2"
        ELSE "STAND"

\* main asks for the mode of a section before it asks for its time range
GetModeForBeatRange ==
    /\ mode_ret = "none"
    /\ range_ret = <<>>
    /\ mode_ret' = get_mode_for_beat_range(start_beat, end_beat)
    /\ UNCHANGED <<beat_times, sections, start_beat, end_beat, range_ret, range_warnings,
                   notRange>>

NextTimeRange == GetBeatTimeRange \/ GetModeForBeatRange

SpecTimeRange == InitTimeRange /\ [][NextTimeRange]_vars

RangeReturned == range_ret # <<>>

InvalidRange == start_beat < 0 \/ end_beat < 0 \/ start_beat > end_beat

\* C19: get_beat_time_range rejects every invalid beat range (a negative
\* start or end index, or start_beat > end_beat) with an error and returns
\* no time range.
InvalidRangeRejected ==
    RangeReturned /\ InvalidRange => range_ret[1] # "ok"

\* C20: for a non-empty timeline and non-negative indices the call never
\* fails: a start index at or past the end and an end index past the end
\* are clamped, both returned times are times of beats of the timeline, and
\* a clamped index yields the time of the last beat.
OutOfBoundsClamped ==
    (RangeReturned /\ Len(beat_times) > 0 /\ start_beat >= 0 /\ end_beat >= 0) =>
        LET n == Len(beat_times)
        IN  /\ range_ret[1] = "ok"
            /\ \E k \in 1..n : range_ret[2] = beat_times[k]
            /\ \E k \in 1..n : range_ret[3] = beat_times[k]
            /\ start_beat >= n => range_ret[2] = beat_times[n]
            /\ end_beat > n => range_ret[3] = beat_times[n]
            /\ start_beat < n => range_ret[2] = beat_times[start_beat + 1]
            /\ (end_beat >= 1 /\ end_beat <= n) => range_ret[3] = beat_times[end_beat]

OutOfBoundsClampedWitness ==
    /\ RangeReturned
    /\ Len(beat_times) >= 2
    /\ beat_times[1] # beat_times[Len(beat_times)]
    /\ start_beat > Len(beat_times)
    /\ end_beat > Len(beat_times)
    /\ range_warnings = {"start_exceeds", "end_exceeds"}
    /\ range_ret = <<"ok", beat_times[Len(beat_times)], beat_times[Len(beat_times)]>>

ModeReturned == mode_ret # "none"

\* the (start, end) pairs main hands to the mapper for this timeline
IsSection == \E k \in 1..4 : SectionSplit(Len(beat_times))[k] = <<start_beat, end_beat>>

-----------------------------------------------------------------------------
(* Claims about DanceMove.run and the dry-run loop of run_move.            *)

\* a command a step's runner issued to move the robot (not a mode switch)
StepMoveCmd(c) == c.by = "step" /\ c.name \notin {"set_mode_WALK", "set_mode_STAND"}

\* the step loop of the current call has ended and balance_turn has not begun
LoopEnded == turn_pc \in {"done", "balance"} /\ move # "none"

RanSteps == LoopEnded /\ QLess(QZero, duration_s) /\ Len(StepsOf(move)) > 0

\* steps whose runner has been started in the current call
StepsStarted ==
    IF turn_pc = "step" THEN step_i
    ELSE IF RanSteps THEN Len(StepsOf(move))
    ELSE 0

WalkSteps(m) == Cardinality({ j \in DOMAIN StepsOf(m) : StepsOf(m)[j].kind = "walk" })

\* C22 as stated: every step runs for move_duration / step_count, so that
\* the step loop of a move takes the move duration.
StepsTakeEqualShares == RanSteps => elapsed = duration_s

\* C22: the steps are started in their listed order, each once, each handed
\* move_duration / step_count (the shares sum to the move duration); the
\* loop takes the move duration plus 0.6 s per walk step (none in a dry
\* run); a move with no steps or a duration <= 0 issues no command and
\* changes neither balance nor heading.
StepsRunInOrder ==
    /\ [](turn_pc = "step" \/ LoopEnded =>
            LET steps == StepsOf(move)
                n == Len(steps)
                issued == SelectSeq(cmds, StepMoveCmd)
            IN  /\ dry_run => cmds = <<>>
                /\ ~dry_run =>
                     /\ Len(issued) = StepsStarted
                     /\ \A j \in 1..StepsStarted :
                          /\ issued[j].name = steps[j].name
                          /\ QMul(issued[j].duration_ms, QInt(n))
                                = QMul(duration_s, QInt(1000))
                /\ RanSteps =>
                     elapsed = IF dry_run THEN duration_s
                               ELSE QAdd(duration_s, QMul(Q(3, 5), QInt(WalkSteps(move)))))
    /\ [][(calls' = calls + 1
              /\ (QLeq(duration_s', QZero) \/ Len(StepsOf(move')) = 0))
            => /\ cmds' = <<>>
               /\ balance' = balance
               /\ heading' = heading
               /\ turn_pc' \in {"done", "balance"}]_vars

StepsRunInOrderWitness ==
    /\ RanSteps
    /\ ~dry_run
    /\ move = "three_steps"
    /\ duration_s = Q(9, 10)
    /\ Len(cmds) = 3
    /\ \A j \in 1..3 : cmds[j].duration_ms = QInt(300)
    /\ elapsed = Q(9, 10)

-----------------------------------------------------------------------------
(* run_move invocations sharing one TurnState                              *)

RECURSIVE CoSum(_, _, _)
CoSum(ts, field, i) ==
    IF i > Len(ts) THEN QZero
    ELSE QAdd(IF field = "added" THEN ts[i].added ELSE ts[i].corrected,
              CoSum(ts, field, i + 1))

-----------------------------------------------------------------------------
(* the beat-time history of the detector, in the live loop                 *)

\* the step is one pass of the loop, that is one process_chunk call
ChunkProcessed == chunk_count' = chunk_count + 1

\* C24: the beat-time history holds at most 8 entries, one per fired beat
\* until 8 have fired; a fired beat puts its time at the end, keeps the
\* entries before it in order and drops the oldest when the history was
\* full; a call that fires no beat leaves the history as it was.
HistoryKeepsLastEight ==
    /\ [](Len(beat_history) = Min(beat_count, 8))
    /\ [](\A i \in 1..(Len(beat_history) - 1) : QLess(beat_history[i], beat_history[i + 1]))
    /\ [][IF ChunkProcessed /\ det_ret'[1]
          THEN LET dropped == Len(beat_history) + 1 - Len(beat_history')
               IN  /\ dropped = (IF Len(beat_history) = 8 THEN 1 ELSE 0)
                   /\ beat_history'[Len(beat_history')] = current_time'
                   /\ \A i \in 1..(Len(beat_history') - 1) :
                          beat_history'[i] = beat_history[i + dropped]
          ELSE beat_history' = beat_history]_vars

\* nine beats have fired, one per chunk, and the history starts at the second
HistoryKeepsLastEightWitness ==
    /\ beat_count = 9
    /\ chunk_count = 9
    /\ Len(beat_history) = 8
    /\ beat_history[1] = ChunkReadyAt(2)
    /\ beat_history[8] = ChunkReadyAt(9)

-----------------------------------------------------------------------------
(* the beat period and the prediction after a fired beat                   *)

\* the step is one process_chunk call that fired a beat
BeatFired == chunk_no' = chunk_no + 1 /\ det_ret'[1]

\* C25: on every fired beat at time now, beat_period becomes (newest -
\* oldest) / (entries - 1) of the history that includes now, or keeps its
\* value when that history has fewer than 2 entries, and
\* next_predicted_beat becomes now + the updated beat_period.
PeriodIsMeanInterval ==
    [][BeatFired =>
        LET h == beat_history'
            n == Len(h)
        IN  /\ h[n] = current_time'
            /\ beat_period' = IF n >= 2 THEN QDiv(QSub(h[n], h[1]), QInt(n - 1))
                              ELSE beat_period
            /\ next_predicted_beat' = QAdd(current_time', beat_period')]_vars

\* three beats 0.1 s and 0.2 s apart: the period is 0.15 s
PeriodIsMeanIntervalWitness ==
    /\ det_ret[1]
    /\ Len(beat_history) = 3
    /\ QSub(beat_history[2], beat_history[1]) = Q(1, 10)
    /\ QSub(beat_history[3], beat_history[2]) = Q(1, 5)
    /\ beat_period = Q(3, 20)
    /\ next_predicted_beat = QAdd(current_time, Q(3, 20))

-----------------------------------------------------------------------------
(* what process_chunk returns                                              *)

\* C26: process_chunk fires exactly when the detected or the predicted
\* candidate is true; the kind is "predicted" only when the predicted
\* candidate is true and the detected one false, "detected" whenever the
\* detected one is true, and there is no kind when it does not fire; a
\* call that does not fire leaves the detector's beat state as it was.
FiresOnEitherCandidate ==
    /\ [](det_ret[1] = (onset_beat \/ predicted_beat))
    /\ [](det_ret[2] = (IF onset_beat THEN "detected"
                         ELSE IF predicted_beat THEN "predicted" ELSE "None"))
    /\ [][~det_ret'[1] =>
            UNCHANGED <<beat_history, beat_period, last_beat_time, next_predicted_beat>>]_vars

\* both candidates were true and the beat is reported as detected
FiresOnEitherCandidateWitness ==
    /\ onset_beat
    /\ predicted_beat
    /\ det_ret = <<TRUE, "detected">>

-----------------------------------------------------------------------------
(* one fired beat per click                                                *)

\* the call just made was the one whose chunk holds a click, and it fired
ClickFired ==
    /\ chunk_no >= 1
    /\ (chunk_no - 1) % click_period = 0
    /\ det_ret[1]

\* C27: one onset fires at most once: when the call whose chunk holds the
\* click has fired, the next call, in which the same click may still lie in
\* the trailing two chunks, fires no beat.
OnsetFiresOnce ==
    [][(ClickFired /\ chunk_no' = chunk_no + 1) => ~det_ret'[1]]_vars

-----------------------------------------------------------------------------
(* predicted beats and the beat period                                     *)

\* C28: a beat that fires as predicted, no onset being detected, leaves
\* beat_period at the period it had: the period does not drift while
\* predictions fill the gap.
PredictedBeatsKeepPeriod ==
    [][(chunk_no' = chunk_no + 1 /\ det_ret' = <<TRUE, "predicted">>)
          => beat_period' = beat_period]_vars

-----------------------------------------------------------------------------
(* beats counted and bobs dispatched by the live loop                      *)

\* C29: the beat counter grows by exactly 1 per fired beat and by nothing
\* else; a bob is dispatched exactly on the fired beats that bring the
\* counter to a multiple of BEATS_PER_BOB, so after b fired beats
\* floor(b / BEATS_PER_BOB) bobs were dispatched, and a chunk that fired no
\* beat dispatches none.
BobsFollowBeatCount ==
    /\ [](bob_count = beat_count \div BEATS_PER_BOB)
    /\ [][IF ChunkProcessed
          THEN /\ beat_count' = (IF det_ret'[1] THEN beat_count + 1 ELSE beat_count)
               /\ IF det_ret'[1] /\ beat_count' % BEATS_PER_BOB = 0
                  THEN /\ bob_count' = bob_count + 1
                       /\ Len(tasks') = Len(tasks) + 1
                       /\ tasks'[Len(tasks')].pc = "new"
                  ELSE bob_count' = bob_count /\ tasks' = tasks
          ELSE /\ beat_count' = beat_count
               /\ bob_count' = bob_count
               /\ Len(tasks') <= Len(tasks)]_vars

\* eight beats fired in ten chunks, two chunks fired none: two bobs
BobsFollowBeatCountWitness ==
    /\ chunk_count = 10
    /\ beat_count = 8
    /\ bob_count = 2

-----------------------------------------------------------------------------
(* the beat-list loop starts no move early                                 *)

\* C30: no move is started before the time since the music started has
\* reached its beat's time; when the loop reaches a beat that is still
\* ahead it sleeps for beat_time - now, and when the beat's time has
\* passed already the move is started at once, without a wait.
NoMoveBeforeItsBeat ==
    /\ \A k \in DOMAIN sch_log :
          LET e == sch_log[k]
              beat_time == sch_beats[e.beat + 1]
          IN  /\ e.at >= beat_time
              /\ e.beat % sch_every = 0
              /\ IF beat_time > e.reached
                 THEN e.waited = beat_time - e.reached /\ e.at >= e.reached + e.waited
                 ELSE e.waited = 0 /\ e.at = e.reached
    /\ sch_pc = "sleep" => sch_wait = sch_beats[sch_i + 1] - sch_now /\ sch_wait > 0

\* a move that waited for its beat, then a move whose beat had passed
NoMoveBeforeItsBeatWitness ==
    /\ Len(sch_log) = 2
    /\ sch_log[1].waited > 0
    /\ sch_log[2].waited = 0
    /\ sch_log[2].at > sch_beats[sch_log[2].beat + 1]

-----------------------------------------------------------------------------
(* the moves the beat-list loop starts                                     *)

\* ceil(n / d) for n >= 0
CeilDiv(n, d) == (n + d - 1) \div d

-----------------------------------------------------------------------------
(* the order of the actuator calls of the offline run                      *)

\* the calls of section b: the mode, its moves, the posture reset
SectionCalls(b) ==
    <<"set_mode">> \o [j \in 1..BlockLen(b) |-> "move"] \o <<"reset_body">>

\* the calls of a run of beat_routine/custom_example.py that nothing stops:
\* init, the stand mode, the four sections, the walk mode
RoutineCalls ==
    <<"init", "set_mode">> \o SectionCalls(1) \o SectionCalls(2) \o SectionCalls(3)
        \o SectionCalls(4) \o <<"set_mode">>

\* the calls the two finally blocks may add
CleanupCalls == { <<>>, <<"reset_body">>, <<"disconnect">>, <<"reset_body", "disconnect">> }

\* how many moves have been issued
RECURSIVE MovesIn(_, _)
MovesIn(cs, i) ==
    IF i > Len(cs) THEN 0 ELSE (IF cs[i] = "move" THEN 1 ELSE 0) + MovesIn(cs, i + 1)

\* how many moves have completed together with their pause
RECURSIVE MovesBefore(_)
MovesBefore(b) == IF b <= 1 THEN 0 ELSE BlockLen(b - 1) + MovesBefore(b - 1)

InMotion ==
    off_pc \in {"block_sleep", "move_check", "move_await", "pause", "section_reset",
                "section_sleep"}

\* C32: the offline run of beat_routine/custom_example.py issues its calls
\* in section order, one move at a time: each section sets the mode once,
\* before its first move, a move is issued only when the move before it and
\* its pause have completed, and the posture reset follows the section's
\* last move and precedes the mode switch of the next section.
SectionsRunInOrder ==
    off_script = "beat_routine" =>
        /\ \E n \in 0..Len(RoutineCalls), c \in CleanupCalls :
              off_calls = SubSeq(RoutineCalls, 1, n) \o c
        /\ InMotion =>
              /\ off_block \in 1..4
              /\ MovesIn(off_calls, 1) =
                    MovesBefore(off_block) + off_i
                        + (IF off_pc \in {"move_await", "pause"} THEN 1 ELSE 0)
              /\ off_pc \in {"section_reset", "section_sleep"} => off_i = BlockLen(off_block)

\* a run of the four sections that completed
SectionsRunInOrderWitness ==
    /\ off_script = "beat_routine"
    /\ off_pc = "done"
    /\ "completed" \in off_log
    /\ off_calls = RoutineCalls \o <<"reset_body", "disconnect">>

-----------------------------------------------------------------------------
(* what the steps of a move add to the balance                             *)

\* turn_rate x (duration / step_count) of step j of move m run for d seconds
Contribution(m, d, j) ==
    QMul(StepsOf(m)[j].turn_rate, QDiv(d, QInt(Len(StepsOf(m)))))

RECURSIVE ContributionSum(_, _, _)
ContributionSum(m, d, j) ==
    IF j > Len(StepsOf(m)) THEN QZero
    ELSE QAdd(Contribution(m, d, j), ContributionSum(m, d, j + 1))

-----------------------------------------------------------------------------
(* the first fired beat                                                    *)

\* C34: next_predicted_beat is unset exactly as long as no beat has fired;
\* until then a call fires only on a detected onset, so the first fired
\* beat is reported as "detected", and calls without a detected onset fire
\* nothing and leave the prediction unset.
FirstBeatIsDetected ==
    /\ [](next_predicted_beat = <<>> <=> beat_history = <<>>)
    /\ [](beat_history = <<>> => ~det_ret[1])
    /\ [][beat_history = <<>> =>
            /\ ~predicted_beat'
            /\ det_ret'[1] => (onset_beat' /\ det_ret'[2] = "detected")
            /\ ~onset_beat' => (~det_ret'[1] /\ beat_history' = <<>>
                                 /\ next_predicted_beat' = <<>>)]_vars

\* three calls found no onset and fired nothing, the fourth fired the first
\* beat
FirstBeatIsDetectedWitness ==
    /\ chunk_no = 4
    /\ Len(beat_history) = 1
    /\ det_ret = <<TRUE, "detected">>
    /\ ~predicted_beat

-----------------------------------------------------------------------------
(* what a call that does not fire leaves alone                             *)

\* C35: a process_chunk call that does not fire leaves the beat history,
\* beat_period, next_predicted_beat and last_beat_time as they were; once a
\* beat has fired, last_beat_time is the newest history entry and
\* next_predicted_beat is last_beat_time + beat_period, in every state.
QuietCallsChangeNothing ==
    /\ [][(chunk_no' = chunk_no + 1 /\ ~det_ret'[1]) =>
            /\ beat_history' = beat_history
            /\ beat_period' = beat_period
            /\ next_predicted_beat' = next_predicted_beat
            /\ last_beat_time' = last_beat_time]_vars
    /\ [](beat_history # <<>> =>
            /\ last_beat_time = beat_history[Len(beat_history)]
            /\ next_predicted_beat = QAdd(last_beat_time, beat_period))

\* two beats fired, then a call that fired nothing
QuietCallsChangeNothingWitness ==
    /\ Len(beat_history) = 2
    /\ ~det_ret[1]
    /\ QLess(last_beat_time, current_time)
    /\ next_predicted_beat = QAdd(beat_history[2], beat_period)

-----------------------------------------------------------------------------
(* the loops of get_bpm and of build_sequence make progress                *)

\* C36: get_bpm terminates for every finite raw tempo: whenever the
\* doubling loop is about to run its body the doubled value is larger than
\* bpm, and whenever the halving loop is about to run its body the halved
\* value is smaller, so each loop reaches its bound after finitely many
\* iterations.
BpmLoopsAdvance ==
    /\ (bpm_pc = "double" /\ TooSlow(bpm)) => QLess(bpm, QMul(bpm, QInt(2)))
    /\ (bpm_pc = "halve" /\ TooFast(bpm)) => QLess(QDiv(bpm, QInt(2)), bpm)

\* C37: build_sequence terminates for every pattern and count: whenever
\* the loop is about to run its body, extending makes the list longer, so
\* the list reaches count after finitely many extensions.
BuildLoopAdvances ==
    (seq_pc = "loop" /\ Len(sequence) < count) =>
        Len(Extend(sequence, pattern)) > Len(sequence)

\* C38: on a non-empty non-decreasing timeline, every call of
\* get_beat_time_range with 0 <= start_beat <= end_beat (empty ranges
\* included) returns a pair, raising nothing, whose start_time is at most
\* its end_time.
RangeTimesOrdered ==
    (/\ range_ret # <<>>
     /\ beat_times # <<>>
     /\ 0 <= start_beat
     /\ start_beat <= end_beat)
        => /\ range_ret[1] = "ok"
           /\ range_ret[2] <= range_ret[3]

=========================================================================
